---- MODULE Spec2Model ----
(***************************************************************************)
(* Family budget application.  The repository ships two front ends over    *)
(* the same bookkeeping: the standalone page (script.js, all state in the  *)
(* browser's localStorage) and the React dashboard (cards and dialogs that *)
(* send REST requests), with its calendar, categories and agenda pages.    *)
(* A run stays on one page (variable variant).                             *)
(*                                                                         *)
(* Strings are sequences of one-token strings, so that trim, parseFloat    *)
(* and parseInt are computed rather than assumed.  Amounts are whole       *)
(* numbers: the inputs carry no decimal point.                             *)
(***************************************************************************)
EXTENDS Integers, Sequences, FiniteSets, TLC

(***************************************************************************)
(* Bounds of the model.                                                    *)
(***************************************************************************)
\* Date.now() at the first step; far above the ids of the seeded bills.
Epoch == 100
\* a run makes at most this many steps (handler calls, responses to their
\* requests and clock ticks); the GETs of a dashboard refresh are not counted
MaxOps == 4
\* ticks per calendar month
TicksPerMonth == 1
\* how many of the seeded bills the household still keeps at the start
InitBills == 1

(***************************************************************************)
(* Strings and the JavaScript conversions used by the handlers.            *)
(***************************************************************************)
Digits == <<"0", "1", "2", "3", "4", "5", "6", "7", "8", "9">>

IsDigit(c) == \E i \in 1..10 : Digits[i] = c

DigitVal(c) == (CHOOSE i \in 1..10 : Digits[i] = c) - 1

IsSpace(c) == c = " "

RECURSIVE TrimLeft(_)
TrimLeft(s) ==
  IF s # <<>> /\ IsSpace(Head(s)) THEN TrimLeft(Tail(s)) ELSE s

RECURSIVE TrimRight(_)
TrimRight(s) ==
  IF s # <<>> /\ IsSpace(s[Len(s)]) THEN TrimRight(SubSeq(s, 1, Len(s) - 1)) ELSE s

\* String.prototype.trim
trim(s) == TrimRight(TrimLeft(s))

\* the longest run of digits at the head of s
RECURSIVE DigitRun(_)
DigitRun(s) ==
  IF s # <<>> /\ IsDigit(Head(s)) THEN <<Head(s)>> \o DigitRun(Tail(s)) ELSE <<>>

RECURSIVE DigitsValue(_, _)
DigitsValue(s, acc) ==
  IF s = <<>> THEN acc ELSE DigitsValue(Tail(s), 10 * acc + DigitVal(Head(s)))

\* the part of s a numeric parse looks at: leading white space skipped
NumBody(s) ==
  LET t == TrimLeft(s)
  IN  IF t # <<>> /\ Head(t) \in {"-", "+"} THEN Tail(t) ELSE t

NumSign(s) ==
  LET t == TrimLeft(s)
  IN  IF t # <<>> /\ Head(t) = "-" THEN -1 ELSE 1

\* isNaN(parseFloat(s)) and isNaN(parseInt(s)): no digit where the number starts
ParsesToNaN(s) == DigitRun(NumBody(s)) = <<>>

\* parseFloat(s) when it is a number (inputs carry no decimal point)
parseFloat(s) == NumSign(s) * DigitsValue(DigitRun(NumBody(s)), 0)

\* parseInt(s) when it is a number
parseInt(s) == NumSign(s) * DigitsValue(DigitRun(NumBody(s)), 0)

\* parseFloat(s) || dflt and parseInt(s) || dflt: NaN and 0 are falsy
ParseFloatOr(s, dflt) ==
  IF ParsesToNaN(s) \/ parseFloat(s) = 0 THEN dflt ELSE parseFloat(s)

ParseIntOr(s, dflt) ==
  IF ParsesToNaN(s) \/ parseInt(s) = 0 THEN dflt ELSE parseInt(s)

(***************************************************************************)
(* What the user can type.                                                 *)
(***************************************************************************)
AmountInputs == { <<>>, <<"-", "5">>, <<"7", "a">> }

DueDayInputs == { <<>>, <<"9">>, <<"4", "5">> }

NameInputs == { <<" ">>, <<" ", "Rent ", "\"", "flat", "\"">> }

Users == {"harish", "durga"}

(***************************************************************************)
(* JSON objects and arrays.  An object is the sequence of its entries in   *)
(* insertion order, as JSON.stringify writes it.                           *)
(***************************************************************************)
HasKey(obj, k) == \E i \in 1..Len(obj) : obj[i].key = k

\* variant of GetOr0: a missing property reads as 1
GetOr0_One(obj, k) ==
  IF HasKey(obj, k) THEN obj[CHOOSE i \in 1..Len(obj) : obj[i].key = k].val ELSE 1

\* obj[k] || 0
GetOr0(obj, k) ==
  IF HasKey(obj, k) THEN obj[CHOOSE i \in 1..Len(obj) : obj[i].key = k].val ELSE 0

\* obj[k] = v : an existing entry is overwritten in place, a new one appended
SetProp(obj, k, v) ==
  IF HasKey(obj, k)
  THEN [i \in 1..Len(obj) |-> IF obj[i].key = k THEN [key |-> k, val |-> v] ELSE obj[i]]
  ELSE Append(obj, [key |-> k, val |-> v])

\* Array.prototype.reduce((total, x) => total + x.amount, 0)
RECURSIVE SumAmounts(_)
SumAmounts(s) ==
  IF s = <<>> THEN 0 ELSE SumAmounts(SubSeq(s, 1, Len(s) - 1)) + s[Len(s)].amount

\* variant of Reverse: the list as it is
Reverse_Same(s) == s

\* Array.prototype.reverse
Reverse(s) == [i \in 1..Len(s) |-> s[Len(s) + 1 - i]]

\* s.slice(-n)
SliceLast(s, n) == IF Len(s) <= n THEN s ELSE SubSeq(s, Len(s) - n + 1, Len(s))

\* the decimal digits of a natural number, as JSON.stringify writes them
RECURSIVE NatToDigits(_)
NatToDigits(n) ==
  IF n < 10 THEN <<Digits[n + 1]>> ELSE NatToDigits(n \div 10) \o <<Digits[(n % 10) + 1]>>

\* JSON.stringify of a number, and JSON.parse of that text
NumberToJSON(n) == IF n < 0 THEN <<"-">> \o NatToDigits(-n) ELSE NatToDigits(n)

NumberFromJSON(t) ==
  IF Head(t) = "-" THEN -DigitsValue(Tail(t), 0) ELSE DigitsValue(t, 0)

\* JSON.stringify of a string: quoted, with quote and backslash escaped
RECURSIVE EscapeJSON(_)
EscapeJSON(s) ==
  IF s = <<>> THEN <<>>
  ELSE (IF Head(s) \in {"\"", "\\"} THEN <<"\\", Head(s)>> ELSE <<Head(s)>>) \o EscapeJSON(Tail(s))

StringToJSON(s) == <<"\"">> \o EscapeJSON(s) \o <<"\"">>

\* JSON.parse of a string literal
RECURSIVE UnescapeJSON(_)
UnescapeJSON(t) ==
  IF t = <<>> THEN <<>>
  ELSE IF Head(t) = "\\" THEN <<t[2]>> \o UnescapeJSON(Tail(Tail(t)))
  ELSE <<Head(t)>> \o UnescapeJSON(Tail(t))

\* variant of StringFromJSON: the escapes are left in the string
StringFromJSON_Raw(t) == SubSeq(t, 2, Len(t) - 1)

StringFromJSON(t) == UnescapeJSON(SubSeq(t, 2, Len(t) - 1))

\* the properties of the stored records that hold strings; the others hold numbers
StringFields == {"name", "description"}

\* JSON.stringify and JSON.parse of a stored collection: the salaries object,
\* entry by entry, or an array of bill or transaction records
JSONstringify(data) ==
  [i \in 1..Len(data) |->
     [f \in DOMAIN data[i] |->
        IF f \in {"key", "amount_json"} THEN data[i][f]
        ELSE IF f \in StringFields THEN StringToJSON(data[i][f])
        ELSE NumberToJSON(data[i][f])]]

JSONparse(text) ==
  [i \in 1..Len(text) |->
     [f \in DOMAIN text[i] |->
        IF f \in {"key", "amount_json"} THEN text[i][f]
        ELSE IF f \in StringFields THEN StringFromJSON(text[i][f])
        ELSE NumberFromJSON(text[i][f])]]

\* JavaScript values other than whole numbers.  A stored record keeps a
\* number in its field amount; when the stored amount is not a number the
\* record has the field amount_json instead, with the JSON text of the value
\* (null, or a quoted string).  In a computation a value carries its type.
jsNumber(n) == [t |-> "number", n |-> n]

jsString(s) == [t |-> "string", s |-> s]

NaN == [t |-> "NaN"]

Null == [t |-> "null"]

\* record.amount as JSON.parse gives it
amountOf(record) ==
  IF "amount" \in DOMAIN record THEN jsNumber(record.amount)
  ELSE IF record.amount_json = <<"n", "u", "l", "l">> THEN Null
  ELSE jsString(StringFromJSON(record.amount_json))

\* String(v)
jsText(v) ==
  CASE v.t = "string" -> v.s
    [] v.t = "number" -> NumberToJSON(v.n)
    [] v.t = "NaN"    -> <<"N", "a", "N">>
    [] OTHER          -> <<"n", "u", "l", "l">>

\* Number(v): null is 0, a string is the number it spells in full, else NaN
ToNumber(v) ==
  CASE v.t = "number" -> v
    [] v.t = "null"   -> jsNumber(0)
    [] v.t = "NaN"    -> NaN
    [] OTHER          ->
         LET text == trim(v.s)
             body == IF text # <<>> /\ Head(text) \in {"-", "+"} THEN Tail(text) ELSE text
         IN  IF text = <<>> THEN jsNumber(0)
             ELSE IF body # <<>> /\ DigitRun(body) = body
                  THEN jsNumber((IF Head(text) = "-" THEN -1 ELSE 1) * DigitsValue(body, 0))
                  ELSE NaN

\* a + b: concatenation when one of them is a string, else the sum of the numbers
jsPlus(a, b) ==
  IF a.t = "string" \/ b.t = "string" THEN jsString(jsText(a) \o jsText(b))
  ELSE IF ToNumber(a).t = "NaN" \/ ToNumber(b).t = "NaN" THEN NaN
  ELSE jsNumber(ToNumber(a).n + ToNumber(b).n)

\* a - b
jsMinus(a, b) ==
  IF ToNumber(a).t = "NaN" \/ ToNumber(b).t = "NaN" THEN NaN
  ELSE jsNumber(ToNumber(a).n - ToNumber(b).n)

\* v || 0: null, NaN, 0 and the empty string are falsy
jsOrZero(v) ==
  IF v.t \in {"null", "NaN"} \/ (v.t = "number" /\ v.n = 0) \/ (v.t = "string" /\ v.s = <<>>)
  THEN jsNumber(0) ELSE v

\* reduce((total, x) => total + x.amount, 0), and with (x.amount || 0) when orZero
RECURSIVE jsSumAmounts(_, _)
jsSumAmounts(s, orZero) ==
  IF s = <<>> THEN jsNumber(0)
  ELSE jsPlus(jsSumAmounts(SubSeq(s, 1, Len(s) - 1), orZero),
              IF orZero THEN jsOrZero(amountOf(s[Len(s)])) ELSE amountOf(s[Len(s)]))

\* every amount of the list is a number
amountsAreNumbers(s) == \A i \in 1..Len(s) : "amount" \in DOMAIN s[i]

(***************************************************************************)
(* State.                                                                  *)
(***************************************************************************)
VARIABLES
  variant,            \* the page this run uses: "standalone", "react" (the dashboard), "calendar", "categories", "agenda"
  ops,                \* the number of steps made so far
  now,                \* Date.now()
  ls_salaries,        \* localStorage family_budget_salaries: <<>> when the key is absent, else <<object>>
  ls_bills,           \* localStorage family_budget_bills: <<>> or <<array>>
  ls_transactions,    \* localStorage family_budget_transactions: <<>> or <<array>>
  currentSalaryUser,  \* script.js global
  dom,                \* what the standalone page displays
  srv_salaries,       \* server: the active salary records, one entry per user id
  srv_bills,          \* server: the bills
  srv_transactions,   \* server: the transactions
  salaryCard,         \* EditableSalaryCard: isEditing, loading and the PATCH in flight
  billCard,           \* EditableBillCard of the first server bill: isEditing, loading, PATCH in flight,
                      \* the text of its due-day field and, as history, whether the user has typed
                      \* in it and the due day the card displayed at the last click on Save
  quickExpense,       \* QuickExpenseEntry: open, loading, where handleAddExpense stands, its form
  role,               \* React: user.role of the user who is logged in
  srv_categories,     \* server: the categories
  srv_events,         \* server: the calendar events
  quickAdd,           \* QuickAddMenu: open, loading and the POST in flight
  billDelete,         \* Dashboard: the ids of the bills whose DELETE is in flight
  calendarView,       \* CalendarView: its dialogs and the requests in flight
  categoriesPage,     \* CategoriesManagement: its dialog and the requests in flight
  today,              \* the calendar date of the agenda's "now"
  agenda,             \* AgendaView: selectedDays, loading, agendaData
  editPrompt,         \* standalone: the prompt of editBill that is open in this tab, with the
                      \* bill list editBill read before it: <<>> or <<[billId, bills]>>
  dashboard,          \* Dashboard: what it displays and its refreshes in flight
  salaryInput,        \* history: per user, the text of the last saveSalary (<<"seed">> before any)
  lastOp              \* history: the page load, expense or bill operation the last step carried out, if any

\* the state of the standalone page
localVars == <<ls_salaries, ls_bills, ls_transactions, currentSalaryUser, dom, salaryInput,
               editPrompt>>

\* the state of the React dashboard and of its server
reactVars == <<srv_salaries, srv_bills, srv_transactions, salaryCard, billCard, quickExpense,
               dashboard>>

\* the user's role and the state of the other parts of the React application
pageVars == <<role, srv_categories, srv_events, quickAdd, billDelete, calendarView,
              categoriesPage, today, agenda>>

vars == <<variant, ops, now, localVars, reactVars, pageVars, lastOp>>

(***************************************************************************)
(* The standalone page: script.js.                                         *)
(***************************************************************************)
defaultSalaries == << [key |-> "harish", val |-> 3200], [key |-> "durga", val |-> 2800] >>

defaultBills ==
  << [id |-> 1, name |-> <<"Electricity Bill">>, amount |-> 90,   dueDay |-> 15],
     [id |-> 2, name |-> <<"Water Bill">>,       amount |-> 30,   dueDay |-> 5],
     [id |-> 3, name |-> <<"Internet & WiFi">>,  amount |-> 35,   dueDay |-> 1],
     [id |-> 4, name |-> <<"Mobile Phone">>,     amount |-> 45,   dueDay |-> 10],
     [id |-> 5, name |-> <<"Home Insurance">>,   amount |-> 18,   dueDay |-> 20],
     [id |-> 6, name |-> <<"Home Loan EMI">>,    amount |-> 1000, dueDay |-> 1] >>

\* slice(-10) of updateTransactionsDisplay
RecentCount == 10

\* the default due day of saveBill
DefaultDueDay == 15

\* setData(key, data), localStorage.setItem(key, JSON.stringify(data)).  An
\* item holds its text in parsed form: what JSON.parse makes of what
\* JSON.stringify wrote
setData(data) == <<JSONparse(JSONstringify(data))>>

\* variant of initializeData: an empty stored collection is seeded again
initializeData_WhenEmpty(item, seed) == IF item \in {<<>>, <<<<>>>>} THEN setData(seed) ELSE item

\* initializeData: a key is seeded when localStorage.getItem gives null
initializeData(item, seed) == IF item = <<>> THEN setData(seed) ELSE item

\* getData(key), JSON.parse(localStorage.getItem(key) || '[]')
getData(item) == IF item = <<>> THEN <<>> ELSE item[1]

monthlyIncomeOf(salaries) == GetOr0(salaries, "harish") + GetOr0(salaries, "durga")

monthlyBillsOf(bills) == SumAmounts(bills)

\* variant of monthlyExpensesOf: the transactions are left out
monthlyExpensesOf_BillsOnly(bills, transactions) == monthlyBillsOf(bills)

monthlyExpensesOf(bills, transactions) == monthlyBillsOf(bills) + SumAmounts(transactions)

\* x.toFixed(1) for x = num / den, den > 0, in tenths: the nearest tenth, the
\* one of larger magnitude at a tie
toFixed1(num, den) ==
  IF num >= 0 THEN (20 * num + den) \div (2 * den)
  ELSE -((20 * (-num) + den) \div (2 * den))

\* variant of savingsRateOf: no test of the income
savingsRateOf_NoGuard(income, surplus) ==
  toFixed1(100 * surplus, IF income = 0 THEN 1 ELSE IF income < 0 THEN -income ELSE income)

\* monthlyIncome > 0 ? ((monthlySurplus / monthlyIncome) * 100).toFixed(1) : 0,
\* in tenths of a percent
savingsRateOf(income, surplus) ==
  IF income > 0 THEN toFixed1(100 * surplus, income) ELSE 0

\* the page before the script has filled it in.  The totals are whole
\* numbers; notNumbers names the totals whose value is a string or NaN (the
\* field then holds 0), and threw tells that the script stopped with a TypeError
blankPage ==
  [ monthlyIncome |-> 0, monthlyExpenses |-> 0, monthlySurplus |-> 0, savingsRate |-> 0,
    harishSalary |-> 0, durgaSalary |-> 0, bills |-> <<>>, transactions |-> <<>>,
    notNumbers |-> {}, threw |-> FALSE ]

\* updateDashboard over stored amounts that are not all numbers: the sums
\* are made with the + of JavaScript; bill.amount.toLocaleString() and
\* txn.amount.toLocaleString() throw on null, which leaves the list being
\* rendered, and the lists after it, as they were on the page
updateDashboardOverAny(page, salaries, bills, transactions) ==
  LET income      == monthlyIncomeOf(salaries)
      expenses    == jsPlus(jsSumAmounts(bills, FALSE), jsSumAmounts(transactions, TRUE))
      surplus     == jsMinus(jsNumber(income), expenses)
      billsThrow  == \E i \in 1..Len(bills) : amountOf(bills[i]).t = "null"
      recent      == Reverse(SliceLast(transactions, RecentCount))
      recentThrow == \E i \in 1..Len(recent) : amountOf(recent[i]).t = "null"
  IN  [ monthlyIncome   |-> income,
        monthlyExpenses |-> IF expenses.t = "number" THEN expenses.n ELSE 0,
        monthlySurplus  |-> IF surplus.t = "number" THEN surplus.n ELSE 0,
        savingsRate     |-> IF surplus.t = "number" THEN savingsRateOf(income, surplus.n) ELSE 0,
        harishSalary    |-> GetOr0(salaries, "harish"),
        durgaSalary     |-> GetOr0(salaries, "durga"),
        bills           |-> IF billsThrow THEN page.bills ELSE bills,
        transactions    |-> IF billsThrow \/ recentThrow THEN page.transactions ELSE recent,
        notNumbers      |-> {f \in {"monthlyExpenses"} : expenses.t # "number"}
                            \cup {f \in {"monthlySurplus"} : surplus.t # "number"}
                            \cup {f \in {"savingsRate"} : surplus.t # "number" /\ income > 0},
        threw           |-> billsThrow \/ recentThrow ]

\* updateDashboard with updateBillsDisplay and updateTransactionsDisplay:
\* the page contents computed from the three stored items
updateDashboard(page, sItem, bItem, tItem) ==
  LET salaries     == getData(sItem)
      bills        == getData(bItem)
      transactions == getData(tItem)
      income       == monthlyIncomeOf(salaries)
      expenses     == monthlyExpensesOf(bills, transactions)
  IN  IF amountsAreNumbers(bills) /\ amountsAreNumbers(transactions)
      THEN [ monthlyIncome   |-> income,
             monthlyExpenses |-> expenses,
             monthlySurplus  |-> income - expenses,
             savingsRate     |-> savingsRateOf(income, income - expenses),
             harishSalary    |-> GetOr0(salaries, "harish"),
             durgaSalary     |-> GetOr0(salaries, "durga"),
             bills           |-> bills,
             transactions    |-> Reverse(SliceLast(transactions, RecentCount)),
             notNumbers      |-> {},
             threw           |-> FALSE ]
      ELSE updateDashboardOverAny(page, salaries, bills, transactions)

\* a step of the standalone page
Standalone == variant = "standalone" /\ ops < MaxOps /\ ops' = ops + 1

Standalone0 == variant = "standalone"

\* history values
Other == [op |-> "other"]

Seed == <<"seed">>

\* time passes
Tick ==
  /\ ops < MaxOps
  /\ ops' = ops + 1
  /\ now' = now + 1
  /\ lastOp' = Other
  /\ UNCHANGED <<editPrompt, reactVars, pageVars, variant, ls_salaries, ls_bills, ls_transactions,
                 currentSalaryUser, dom, salaryInput>>

\* DOMContentLoaded after a reload of the page
pageLoad ==
  /\ Standalone
  /\ ls_salaries' = initializeData(ls_salaries, defaultSalaries)
  /\ ls_bills' = initializeData(ls_bills, defaultBills)
  /\ ls_transactions' = initializeData(ls_transactions, <<>>)
  /\ dom' = updateDashboard(dom, ls_salaries', ls_bills', ls_transactions')
  /\ currentSalaryUser' = ""
  /\ lastOp' = [op |-> "pageLoad"]
  /\ UNCHANGED <<editPrompt, reactVars, pageVars, variant, now, salaryInput>>

editSalary(user) ==
  /\ Standalone
  /\ currentSalaryUser' = user
  /\ lastOp' = Other
  /\ UNCHANGED <<editPrompt, reactVars, pageVars, variant, now, ls_salaries, ls_bills, ls_transactions, dom, salaryInput>>

\* variants of salariesAfterSave: the new amount added to the old one,
\* a second record appended, the old record retired and none inserted
salariesAfterSave_Add(salaries, user, amount) ==
  SetProp(salaries, user, GetOr0(salaries, user) + amount)

salariesAfterSave_Append(salaries, user, amount) ==
  Append(salaries, [key |-> user, val |-> amount])

salariesAfterSave_Retire(salaries, user, amount) ==
  SelectSeq(salaries, LAMBDA e : e.key # user)

\* salaries[currentSalaryUser] = amount
salariesAfterSave(salaries, user, amount) == SetProp(salaries, user, amount)

saveSalary(input) ==
  /\ Standalone
  /\ currentSalaryUser \in Users
  /\ LET amount   == ParseFloatOr(input, 0)
         salaries == salariesAfterSave(getData(ls_salaries), currentSalaryUser, amount)
     IN  /\ ls_salaries' = setData(salaries)
         /\ dom' = updateDashboard(dom, ls_salaries', ls_bills, ls_transactions)
         /\ salaryInput' = [salaryInput EXCEPT ![currentSalaryUser] = input]
         /\ lastOp' = Other
  /\ UNCHANGED <<editPrompt, reactVars, pageVars, variant, now, ls_bills, ls_transactions, currentSalaryUser>>

\* the guard of saveExpense: !description || amount <= 0
expenseRejected(description, amount) == description = <<>> \/ amount <= 0

saveExpense(descriptionInput, amountInput) ==
  /\ Standalone
  /\ LET description == trim(descriptionInput)
         amount      == ParseFloatOr(amountInput, 0)
     IN  IF expenseRejected(description, amount)
         THEN /\ lastOp' = Other
              /\ UNCHANGED <<ls_transactions, dom>>
         ELSE /\ ls_transactions' = setData(Append(getData(ls_transactions),
                     [id |-> now, description |-> description,
                      amount |-> amount, date |-> now]))
              /\ dom' = updateDashboard(dom, ls_salaries, ls_bills, ls_transactions')
              /\ lastOp' = [op |-> "saveExpense", amount |-> amountInput]
  /\ UNCHANGED <<editPrompt, reactVars, pageVars, variant, now, ls_salaries, ls_bills, currentSalaryUser, salaryInput>>

\* the guard of saveBill: !name || amount <= 0
billRejected(name, amount, dueDay) == name = <<>> \/ amount <= 0

saveBill(nameInput, amountInput, dueDayInput) ==
  /\ Standalone
  /\ LET name   == trim(nameInput)
         amount == ParseFloatOr(amountInput, 0)
         dueDay == ParseIntOr(dueDayInput, DefaultDueDay)
     IN  IF billRejected(name, amount, dueDay)
         THEN /\ lastOp' = Other
              /\ UNCHANGED <<ls_bills, dom>>
         ELSE /\ ls_bills' = setData(Append(getData(ls_bills),
                     [id |-> now, name |-> name, amount |-> amount, dueDay |-> dueDay]))
              /\ dom' = updateDashboard(dom, ls_salaries, ls_bills', ls_transactions)
              /\ lastOp' = [op |-> "saveBill", name |-> nameInput, amount |-> amountInput,
                            dueDay |-> dueDayInput]
  /\ UNCHANGED <<editPrompt, reactVars, pageVars, variant, now, ls_salaries, ls_transactions, currentSalaryUser, salaryInput>>

\* the bill ids a click can carry: the bills on display and, from a page
\* that was rendered before a deletion, the last seeded bill
ClickableBillIds ==
  {dom.bills[i].id : i \in 1..Len(dom.bills)} \cup {defaultBills[Len(defaultBills)].id}

\* variant of billsAfterEdit: the edit also resets the due day
billsAfterEdit_DueDay(bills, billId, amount) ==
  LET k == CHOOSE i \in 1..Len(bills) :
             bills[i].id = billId /\ \A j \in 1..(i - 1) : bills[j].id # billId
  IN  [bills EXCEPT ![k].amount = amount, ![k].dueDay = 1]

\* bill.amount = parseFloat(newAmount) on the bill bills.find found
billsAfterEdit(bills, billId, amount) ==
  LET k == CHOOSE i \in 1..Len(bills) :
             bills[i].id = billId /\ \A j \in 1..(i - 1) : bills[j].id # billId
  IN  [bills EXCEPT ![k].amount = amount]

\* what prompt() can give: null on Cancel (cancelled), else the text
PromptResults == {<<TRUE, <<>>>>} \cup {<<FALSE, t>> : t \in AmountInputs}

editBill(billId, cancelled, text) ==
  /\ Standalone
  /\ LET bills == getData(ls_bills)
         found == \E i \in 1..Len(bills) : bills[i].id = billId
     IN  IF found /\ ~cancelled /\ text # <<>> /\ ~ParsesToNaN(text)
         THEN /\ ls_bills' = setData(billsAfterEdit(bills, billId, parseFloat(text)))
              /\ dom' = updateDashboard(dom, ls_salaries, ls_bills', ls_transactions)
              /\ lastOp' = [op |-> "editBill", id |-> billId]
         ELSE /\ lastOp' = Other
              /\ UNCHANGED <<ls_bills, dom>>
  /\ UNCHANGED <<editPrompt, reactVars, pageVars, variant, now, ls_salaries, ls_transactions, currentSalaryUser, salaryInput>>

\* variant of billsAfterDelete: the first bill is removed, whatever its id
billsAfterDelete_First(bills, billId) == IF bills = <<>> THEN bills ELSE Tail(bills)

\* bills.filter(bill => bill.id !== billId)
billsAfterDelete(bills, billId) == SelectSeq(bills, LAMBDA bill : bill.id # billId)

deleteBill(billId, confirmed) ==
  /\ Standalone
  /\ IF confirmed
     THEN /\ ls_bills' = setData(billsAfterDelete(getData(ls_bills), billId))
          /\ dom' = updateDashboard(dom, ls_salaries, ls_bills', ls_transactions)
          /\ lastOp' = [op |-> "deleteBill", id |-> billId]
     ELSE /\ lastOp' = Other
          /\ UNCHANGED <<ls_bills, dom>>
  /\ UNCHANGED <<editPrompt, reactVars, pageVars, variant, now, ls_salaries, ls_transactions, currentSalaryUser, salaryInput>>

\* ---- two tabs of the standalone page on one localStorage ----
\* editBill up to its prompt: the list is read, the bill found, and the
\* script of this tab waits for the answer
editBillPrompt(billId) ==
  /\ Standalone
  /\ editPrompt = <<>>
  /\ LET bills == getData(ls_bills)
     IN  /\ \E i \in 1..Len(bills) : bills[i].id = billId
         /\ editPrompt' = << [billId |-> billId, bills |-> bills] >>
  /\ lastOp' = Other
  /\ UNCHANGED <<reactVars, pageVars, variant, now, ls_salaries, ls_bills, ls_transactions,
                 currentSalaryUser, dom, salaryInput>>

\* editBill from the answer to its prompt: the list read before the prompt
\* is written back with the new amount
editBillAnswer(cancelled, text) ==
  /\ Standalone
  /\ editPrompt # <<>>
  /\ editPrompt' = <<>>
  /\ IF ~cancelled /\ text # <<>> /\ ~ParsesToNaN(text)
     THEN /\ ls_bills' = setData(billsAfterEdit(editPrompt[1].bills, editPrompt[1].billId,
                                                 parseFloat(text)))
          /\ dom' = updateDashboard(dom, ls_salaries, ls_bills', ls_transactions)
          /\ lastOp' = [op |-> "editBill", id |-> editPrompt[1].billId]
     ELSE /\ lastOp' = Other
          /\ UNCHANGED <<ls_bills, dom>>
  /\ UNCHANGED <<reactVars, pageVars, variant, now, ls_salaries, ls_transactions, currentSalaryUser,
                 salaryInput>>

\* the other tab runs saveBill, editBill or deleteBill to its end: the
\* shared bill list becomes bills; its page is not the page of this tab
otherTabWrites(bills) ==
  /\ Standalone
  /\ ls_bills' = setData(bills)
  /\ lastOp' = [op |-> "otherTab"]
  /\ UNCHANGED <<reactVars, pageVars, variant, now, ls_salaries, ls_transactions, currentSalaryUser,
                 dom, salaryInput, editPrompt>>

otherTabSaveBill(name, amount, dueDay) ==
  /\ ~billRejected(name, amount, dueDay)
  /\ otherTabWrites(Append(getData(ls_bills),
                           [id |-> now, name |-> name, amount |-> amount, dueDay |-> dueDay]))

otherTabEditBill(billId, amount) ==
  /\ \E i \in 1..Len(getData(ls_bills)) : getData(ls_bills)[i].id = billId
  /\ otherTabWrites(billsAfterEdit(getData(ls_bills), billId, amount))

otherTabDeleteBill(billId) ==
  otherTabWrites(billsAfterDelete(getData(ls_bills), billId))

(***************************************************************************)
(* The React dashboard.  Its server is not part of the sources: the three  *)
(* server collections and the effect of a request on them follow the       *)
(* specification (sections 4.1 and 4.2).                                   *)
(***************************************************************************)
\* the user who is logged in
LoggedInUser == "harish"

\* what an <input type="number"> can hold: nothing or a number
NumberInputs == { <<>>, <<"0">>, <<"-", "5">>, <<"7">> }

DueNumberInputs == { <<>>, <<"9">>, <<"4", "5">> }

\* a step of the React dashboard
React == variant = "react" /\ ops < MaxOps /\ ops' = ops + 1

Roles == {"owner", "coowner", "guest"}

\* Dashboard renders the salary section for owner and coowner, and the card
\* its Edit button unless the user is a guest
showsSalaryEdit(userRole) == userRole \in {"owner", "coowner"} /\ userRole # "guest"

\* variant of showsBillEdit: the card shows Edit to every user
showsBillEdit_Always(userRole) == TRUE

\* EditableBillCard: userRole !== 'guest' around the Edit button
showsBillEdit(userRole) == userRole # "guest"

\* Dashboard: user.role !== 'guest' around Quick Add, Add Expense, Add Bill
\* and the delete button of a bill
showsWriteButtons(userRole) == userRole # "guest"

\* server, PATCH /salary/update: the user's records are retired and the new one inserted
srvUpdateSalary(salaries, user, amount) ==
  Append(SelectSeq(salaries, LAMBDA e : e.key # user), [key |-> user, val |-> amount])

\* server, PATCH /bills/{id}: the fields of the body are written
srvPatchBill(bills, id, body) ==
  [i \in 1..Len(bills) |->
     IF bills[i].id = id
     THEN [f \in DOMAIN bills[i] |-> IF f \in DOMAIN body THEN body[f] ELSE bills[i][f]]
     ELSE bills[i]]

RECURSIVE MaxId(_)
MaxId(bills) ==
  IF bills = <<>> THEN 0
  ELSE LET m == MaxId(Tail(bills)) IN IF Head(bills).id > m THEN Head(bills).id ELSE m

\* server, POST /bills
srvCreateBill(bills, body) ==
  Append(bills, [id |-> MaxId(bills) + 1, name |-> body.name, due_day |-> body.due_day,
                 expected_amount |-> body.expected_amount, category_id |-> body.category_id])

\* server, DELETE /bills/{id}
srvDeleteBill(bills, id) == SelectSeq(bills, LAMBDA b : b.id # id)

\* server, computeStats: the income, the expenses and the expenses of one category
srvTotalIncome(salaries, transactions) ==
  LET income == SelectSeq(transactions, LAMBDA t : t.type = "income")
  IN  SumAmounts([i \in 1..Len(salaries) |-> [amount |-> salaries[i].val]]) + SumAmounts(income)

srvTotalExpenses(bills, transactions) ==
  LET expenses == SelectSeq(transactions, LAMBDA t : t.type = "expense")
  IN  SumAmounts([i \in 1..Len(bills) |-> [amount |-> bills[i].expected_amount]])
      + SumAmounts(expenses)

srvCategoryBreakdown(bills, transactions, categoryId) ==
  LET ofBills  == SelectSeq(bills, LAMBDA b : b.category_id = categoryId)
      expenses == SelectSeq(transactions,
                            LAMBDA t : t.type = "expense" /\ t.category_id = categoryId)
  IN  SumAmounts([i \in 1..Len(ofBills) |-> [amount |-> ofBills[i].expected_amount]])
      + SumAmounts(expenses)

\* server, POST /transactions
srvCreateTransaction(transactions, body) == Append(transactions, body)

\* ---- EditableSalaryCard ----
\* ---- Dashboard: fetchDashboardStats ----
\* the answers to GET /dashboard/stats and GET /bills
dashboardData(salaries, bills, transactions) ==
  [stats           |-> [total_income   |-> srvTotalIncome(salaries, transactions),
                        total_expenses |-> srvTotalExpenses(bills, transactions)],
   currentSalaries |-> salaries,
   bills           |-> bills]

\* the dashboard once its first refresh has settled with the answers data;
\* issued counts the refreshes, fetches holds those in flight, each with the
\* answers it has got so far, and last is history: the answers to the most
\* recently issued refresh, once it has settled with success
dashboardLoaded(data) ==
  [shown |-> data, fetches |-> {}, issued |-> 1, last |-> <<data>>]

\* variant of fetchDashboardStats: nothing is requested
fetchDashboardStats_None(d) == d

\* fetchDashboardStats up to its await: the GETs are sent
fetchDashboardStats(d) ==
  [d EXCEPT !.issued = @ + 1,
            !.fetches = @ \cup {[seq |-> d.issued + 1, resp |-> <<>>]},
            !.last = <<>>]

\* the server answers the GETs of a refresh
fetchServed(f) ==
  /\ variant = "react"
  /\ f \in dashboard.fetches /\ f.resp = <<>>
  /\ dashboard' = [dashboard EXCEPT
        !.fetches = (@ \ {f}) \cup
                    {[f EXCEPT !.resp = <<dashboardData(srv_salaries, srv_bills, srv_transactions)>>]}]
  /\ lastOp' = Other
  /\ UNCHANGED <<localVars, pageVars, variant, ops, now, srv_salaries, srv_bills, srv_transactions,
                 salaryCard, billCard, quickExpense>>

\* the awaited Promise.all settles: setStats, setCurrentSalaries and setBills
\* with the answers, or the catch branch when a GET failed
fetchSettled(f, ok) ==
  /\ variant = "react"
  /\ f \in dashboard.fetches
  /\ ok => f.resp # <<>>
  /\ dashboard' = [dashboard EXCEPT
        !.fetches = @ \ {f},
        !.shown = IF ok THEN f.resp[1] ELSE @,
        !.last = IF ok /\ f.seq = dashboard.issued THEN f.resp ELSE @]
  /\ lastOp' = Other
  /\ UNCHANGED <<localVars, pageVars, variant, ops, now, srv_salaries, srv_bills, srv_transactions,
                 salaryCard, billCard, quickExpense>>

\* variant of saveDisabled: the Save button is never disabled
saveDisabled_Never(card) == FALSE

\* disabled={loading} of a card's Save button
saveDisabled(card) == card.loading

salaryCardEdit ==
  /\ React
  /\ showsSalaryEdit(role)
  /\ ~salaryCard.isEditing
  /\ salaryCard' = [salaryCard EXCEPT !.isEditing = TRUE]
  /\ lastOp' = Other
  /\ UNCHANGED <<dashboard, localVars, pageVars, variant, now, srv_salaries, srv_bills, srv_transactions,
                 billCard, quickExpense>>

\* !newSalary || parseFloat(newSalary) <= 0
salaryRejected(newSalary) ==
  newSalary = <<>> \/ (~ParsesToNaN(newSalary) /\ parseFloat(newSalary) <= 0)

handleUpdateSalary(newSalary) ==
  /\ React
  /\ salaryCard.isEditing /\ ~saveDisabled(salaryCard)
  /\ IF salaryRejected(newSalary)
     THEN UNCHANGED salaryCard
     ELSE salaryCard' = [salaryCard EXCEPT
            !.loading = TRUE,
            !.req = << [method |-> "PATCH", path |-> "/salary/update",
                        new_salary |-> parseFloat(newSalary)] >>]
  /\ lastOp' = Other
  /\ UNCHANGED <<dashboard, localVars, pageVars, variant, now, srv_salaries, srv_bills, srv_transactions,
                 billCard, quickExpense>>

\* the PATCH settles: the server has carried it out, or it failed
salaryResponse(ok) ==
  /\ React
  /\ salaryCard.req # <<>>
  /\ IF ok
     THEN /\ srv_salaries' = srvUpdateSalary(srv_salaries, LoggedInUser, salaryCard.req[1].new_salary)
          /\ salaryCard' = [isEditing |-> FALSE, loading |-> FALSE, req |-> <<>>]
          /\ dashboard' = fetchDashboardStats(dashboard)
     ELSE /\ UNCHANGED <<srv_salaries, dashboard>>
          /\ salaryCard' = [salaryCard EXCEPT !.loading = FALSE, !.req = <<>>]
  /\ lastOp' = Other
  /\ UNCHANGED <<localVars, pageVars, variant, now, srv_bills, srv_transactions, billCard, quickExpense>>

salaryCardCancel ==
  /\ React
  /\ salaryCard.isEditing /\ ~salaryCard.loading
  /\ salaryCard' = [salaryCard EXCEPT !.isEditing = FALSE]
  /\ lastOp' = Other
  /\ UNCHANGED <<dashboard, localVars, pageVars, variant, now, srv_salaries, srv_bills, srv_transactions,
                 billCard, quickExpense>>

\* ---- EditableBillCard ----
\* the bill the card shows
CardBillId == 1

\* the bill prop of the card: the bill of the displayed list
billProp == SelectSeq(dashboard.shown.bills, LAMBDA b : b.id = CardBillId)

\* bill.due_day || '' as the due-day field holds it
dueDayField(bill) == IF bill.due_day = 0 THEN <<>> ELSE NatToDigits(bill.due_day)

\* useState(bill.due_day || '') at the mount of the card
billCardMounted(bill) ==
  [isEditing |-> FALSE, loading |-> FALSE, req |-> <<>>,
   newDueDay |-> dueDayField(bill), touched |-> FALSE, savedOver |-> 0]

billCardEdit ==
  /\ React
  /\ showsBillEdit(role)
  /\ \E i \in 1..Len(srv_bills) : srv_bills[i].id = CardBillId
  /\ ~billCard.isEditing
  /\ billCard' = [billCard EXCEPT !.isEditing = TRUE]
  /\ lastOp' = Other
  /\ UNCHANGED <<dashboard, localVars, pageVars, variant, now, srv_salaries, srv_bills, srv_transactions,
                 salaryCard, quickExpense>>

\* !newAmount || parseFloat(newAmount) <= 0
amountRejected(newAmount) ==
  newAmount = <<>> \/ (~ParsesToNaN(newAmount) /\ parseFloat(newAmount) <= 0)

\* !newDueDay || parseInt(newDueDay) < 1 || parseInt(newDueDay) > 31
dueDayRejected(newDueDay) ==
  newDueDay = <<>> \/ (~ParsesToNaN(newDueDay) /\ (parseInt(newDueDay) < 1 \/ parseInt(newDueDay) > 31))

handleUpdateBill(newAmount, newDueDay) ==
  /\ React
  /\ billCard.isEditing /\ ~saveDisabled(billCard)
  /\ IF amountRejected(newAmount) \/ dueDayRejected(newDueDay)
     THEN billCard' = [billCard EXCEPT
            !.newDueDay = newDueDay, !.touched = @ \/ newDueDay # billCard.newDueDay]
     ELSE billCard' = [billCard EXCEPT
            !.newDueDay = newDueDay, !.touched = @ \/ newDueDay # billCard.newDueDay,
            !.savedOver = IF billProp # <<>> THEN billProp[1].due_day ELSE 0,
            !.loading = TRUE,
            !.req = << [method |-> "PATCH", path |-> "/bills", id |-> CardBillId,
                        body |-> [expected_amount |-> parseFloat(newAmount),
                                  due_day |-> parseInt(newDueDay)]] >>]
  /\ lastOp' = Other
  /\ UNCHANGED <<dashboard, localVars, pageVars, variant, now, srv_salaries, srv_bills, srv_transactions,
                 salaryCard, quickExpense>>

\* the variant of the card that has no due-day field
handleUpdateBillAmountOnly(newAmount) ==
  /\ React
  /\ billCard.isEditing /\ ~saveDisabled(billCard)
  /\ IF amountRejected(newAmount)
     THEN UNCHANGED billCard
     ELSE billCard' = [billCard EXCEPT
            !.loading = TRUE,
            !.req = << [method |-> "PATCH", path |-> "/bills", id |-> CardBillId,
                        body |-> [expected_amount |-> parseFloat(newAmount)]] >>]
  /\ lastOp' = Other
  /\ UNCHANGED <<dashboard, localVars, pageVars, variant, now, srv_salaries, srv_bills, srv_transactions,
                 salaryCard, quickExpense>>

billResponse(ok) ==
  /\ React
  /\ billCard.req # <<>>
  /\ IF ok
     THEN /\ srv_bills' = srvPatchBill(srv_bills, billCard.req[1].id, billCard.req[1].body)
          /\ billCard' = [billCard EXCEPT !.isEditing = FALSE, !.loading = FALSE, !.req = <<>>]
          /\ dashboard' = fetchDashboardStats(dashboard)
     ELSE /\ UNCHANGED <<srv_bills, dashboard>>
          /\ billCard' = [billCard EXCEPT !.loading = FALSE, !.req = <<>>]
  /\ lastOp' = Other
  /\ UNCHANGED <<localVars, pageVars, variant, now, srv_salaries, srv_transactions, salaryCard, quickExpense>>

billCardCancel ==
  /\ React
  /\ billCard.isEditing /\ ~billCard.loading
  /\ billCard' = [billCard EXCEPT
        !.isEditing = FALSE,
        !.newDueDay = IF billProp # <<>> THEN dueDayField(billProp[1]) ELSE @,
        !.touched = IF billProp # <<>> THEN FALSE ELSE @]
  /\ lastOp' = Other
  /\ UNCHANGED <<dashboard, localVars, pageVars, variant, now, srv_salaries, srv_bills, srv_transactions,
                 salaryCard, quickExpense>>

\* ---- QuickExpenseEntry ----
\* Dashboard: setShowQuickExpense(true), from Add Expense and from Add Bill
openQuickExpense ==
  /\ React
  /\ showsWriteButtons(role)
  /\ ~quickExpense.isOpen
  /\ quickExpense' = [quickExpense EXCEPT !.isOpen = TRUE]
  /\ lastOp' = Other
  /\ UNCHANGED <<dashboard, localVars, pageVars, variant, now, srv_salaries, srv_bills, srv_transactions,
                 salaryCard, billCard>>

\* !description.trim() || !amount || parseFloat(amount) <= 0
quickExpenseRejected(description, amount) ==
  trim(description) = <<>> \/ amount = <<>> \/ (~ParsesToNaN(amount) /\ parseFloat(amount) <= 0)

\* handleAddExpense up to its first await
handleAddExpense(description, amount, dueDate, isRecurringBill) ==
  /\ React
  /\ quickExpense.isOpen /\ ~quickExpense.loading
  /\ IF quickExpenseRejected(description, amount)
     THEN UNCHANGED quickExpense
     ELSE quickExpense' = [quickExpense EXCEPT
            !.loading = TRUE, !.pc = "lookup",
            !.form = << [description |-> description, amount |-> amount,
                         dueDate |-> dueDate, isRecurringBill |-> isRecurringBill] >>]
  /\ lastOp' = Other
  /\ UNCHANGED <<dashboard, localVars, pageVars, variant, now, srv_salaries, srv_bills, srv_transactions,
                 salaryCard, billCard>>

NoRequest == [method |-> "none"]

\* String.prototype.toLowerCase, word by word
ToLowerCase(s) ==
  [i \in 1..Len(s) |->
     CASE s[i] = "Miscellaneous" -> "miscellaneous"
       [] s[i] = "Other "        -> "other "
       [] s[i] = "Groceries"     -> "groceries"
       [] s[i] = "Salary"        -> "salary"
       [] s[i] = "Transport"     -> "transport"
       [] OTHER                  -> s[i]]

\* String.prototype.includes
includes(s, sub) ==
  \E k \in 0..(Len(s) - Len(sub)) : SubSeq(s, k + 1, k + Len(sub)) = sub

\* Array.prototype.find: the first element that satisfies Test, <<>> when none does
find(list, Test(_)) ==
  LET hits == SelectSeq(list, Test) IN IF hits = <<>> THEN <<>> ELSE <<Head(hits)>>

\* accounts.find(acc => acc.is_active) || accounts[0]
defaultAccountOf(accounts) ==
  LET active == find(accounts, LAMBDA acc : acc.is_active)
  IN  IF active # <<>> THEN active
      ELSE IF accounts # <<>> THEN <<accounts[1]>> ELSE <<>>

\* variant of expenseCategoryOf: the first expense category, whatever its name
expenseCategoryOf_First(categories) == find(categories, LAMBDA cat : cat.type = "expense")

\* the expense category whose name includes 'miscellaneous', else the first
\* expense category
expenseCategoryOf(categories) ==
  LET misc == find(categories,
                   LAMBDA cat : cat.type = "expense"
                                /\ includes(ToLowerCase(cat.name), <<"miscellaneous">>))
  IN  IF misc # <<>> THEN misc ELSE find(categories, LAMBDA cat : cat.type = "expense")

\* variant of expenseRequest: the recurring box is ignored
expenseRequest_AlwaysTransaction(form, date, account, category) ==
  [method |-> "POST", path |-> "/transactions",
   body |-> [type |-> "expense", account_id |-> account.id, category_id |-> category.id,
             amount |-> parseFloat(form.amount),
             description |-> trim(form.description), date |-> date]]

\* the request handleAddExpense sends once account and category are known
expenseRequest(form, date, account, category) ==
  IF form.isRecurringBill /\ form.dueDate # <<>>
  THEN IF ~ParsesToNaN(form.dueDate) /\ parseInt(form.dueDate) >= 1 /\ parseInt(form.dueDate) <= 31
       THEN [method |-> "POST", path |-> "/bills",
             body |-> [name |-> trim(form.description), category_id |-> category.id,
                       account_id |-> account.id, due_day |-> parseInt(form.dueDate),
                       expected_amount |-> parseFloat(form.amount)]]
       ELSE NoRequest
  ELSE [method |-> "POST", path |-> "/transactions",
        body |-> [type |-> "expense", account_id |-> account.id, category_id |-> category.id,
                  amount |-> parseFloat(form.amount),
                  description |-> trim(form.description), date |-> date]]

\* what GET /accounts can give
AccountLists ==
  { <<>>,
    << [id |-> 1, is_active |-> FALSE], [id |-> 2, is_active |-> TRUE] >> }

\* GET /accounts and GET /categories settle: one of them failed (~ok), or
\* they gave the accounts and the categories of the server
lookupResponse(ok, accounts) ==
  /\ React
  /\ quickExpense.pc = "lookup"
  /\ LET defaultAccount  == defaultAccountOf(accounts)
         expenseCategory == expenseCategoryOf(srv_categories)
         found           == ok /\ defaultAccount # <<>> /\ expenseCategory # <<>>
         request         == IF found
                            THEN expenseRequest(quickExpense.form[1], now,
                                                defaultAccount[1], expenseCategory[1])
                            ELSE NoRequest
     IN  IF request # NoRequest
         THEN quickExpense' = [quickExpense EXCEPT !.pc = "post", !.req = <<request>>]
         ELSE quickExpense' = [quickExpense EXCEPT !.loading = FALSE, !.pc = "idle", !.form = <<>>]
  /\ lastOp' = Other
  /\ UNCHANGED <<dashboard, localVars, pageVars, variant, now, srv_salaries, srv_bills, srv_transactions,
                 salaryCard, billCard>>

\* the POST settles
postResponse(ok) ==
  /\ React
  /\ quickExpense.pc = "post"
  /\ LET request == quickExpense.req[1]
     IN  /\ srv_bills' = IF ok /\ request.path = "/bills"
                         THEN srvCreateBill(srv_bills, request.body) ELSE srv_bills
         /\ srv_transactions' = IF ok /\ request.path = "/transactions"
                                THEN srvCreateTransaction(srv_transactions, request.body)
                                ELSE srv_transactions
         /\ quickExpense' = [isOpen |-> IF ok THEN FALSE ELSE quickExpense.isOpen,
                             loading |-> FALSE, pc |-> "idle", form |-> <<>>, req |-> <<>>]
  /\ dashboard' = IF ok THEN fetchDashboardStats(dashboard) ELSE dashboard
  /\ lastOp' = IF ok THEN [op |-> "quickExpense", form |-> quickExpense.form[1]] ELSE Other
  /\ UNCHANGED <<localVars, pageVars, variant, now, srv_salaries, salaryCard, billCard>>

quickExpenseCancel ==
  /\ React
  /\ quickExpense.isOpen /\ ~quickExpense.loading
  /\ quickExpense' = [quickExpense EXCEPT !.isOpen = FALSE]
  /\ lastOp' = Other
  /\ UNCHANGED <<dashboard, localVars, pageVars, variant, now, srv_salaries, srv_bills, srv_transactions,
                 salaryCard, billCard>>

\* ---- Dashboard: the delete button of a bill ----
deleteBillClick(billId, confirmed) ==
  /\ React
  /\ showsWriteButtons(role)
  /\ \E i \in 1..Len(srv_bills) : srv_bills[i].id = billId
  /\ billDelete' = IF confirmed THEN billDelete \cup {billId} ELSE billDelete
  /\ lastOp' = Other
  /\ UNCHANGED <<localVars, reactVars, variant, now, role, srv_categories, srv_events,
                 quickAdd, calendarView, categoriesPage, today, agenda>>

\* the DELETE settles
deleteBillResponse(billId, ok) ==
  /\ React
  /\ billId \in billDelete
  /\ billDelete' = billDelete \ {billId}
  /\ srv_bills' = IF ok THEN srvDeleteBill(srv_bills, billId) ELSE srv_bills
  /\ dashboard' = IF ok THEN fetchDashboardStats(dashboard) ELSE dashboard
  /\ lastOp' = IF ok THEN [op |-> "deleteBillOk", id |-> billId] ELSE Other
  /\ UNCHANGED <<localVars, variant, now, srv_salaries, srv_transactions, salaryCard, billCard,
                 quickExpense, role, srv_categories, srv_events, quickAdd, calendarView,
                 categoriesPage, today, agenda>>

\* ---- QuickAddMenu ----
TransactionKinds == {"income", "expense", "transfer"}

openQuickAdd ==
  /\ React
  /\ showsWriteButtons(role)
  /\ ~quickAdd.isOpen
  /\ quickAdd' = [quickAdd EXCEPT !.isOpen = TRUE]
  /\ lastOp' = Other
  /\ UNCHANGED <<localVars, reactVars, variant, now, role, srv_categories, srv_events,
                 billDelete, calendarView, categoriesPage, today, agenda>>

\* the categories the tab of a kind offers
categoriesOfKind(kind) ==
  {srv_categories[i].id : i \in {j \in 1..Len(srv_categories) : srv_categories[j].type = kind}}

\* disabled={loading || !form.account_id || !form.category_id || !form.amount},
\* and for a transfer the same with to_account_id in the place of category_id
submitDisabled(kind, form) ==
  \/ quickAdd.loading
  \/ form.account_id = 0
  \/ (kind # "transfer" /\ form.category_id = 0)
  \/ (kind = "transfer" /\ (form.to_account_id = 0 \/ form.to_account_id = form.account_id))
  \/ form.amount = <<>>

\* the forms the user can fill in: an account, a category of the kind (or a
\* second account), an amount
QuickAddForms(kind) ==
  IF kind = "transfer"
  THEN { [account_id |-> 2, to_account_id |-> t, amount |-> a] :
           t \in {0, 1}, a \in NumberInputs }
  ELSE { [account_id |-> 2, category_id |-> c, amount |-> a] :
           c \in categoriesOfKind(kind) \cup {0}, a \in NumberInputs }

\* handleSubmitIncome, handleSubmitExpense, handleSubmitTransfer up to the await
handleSubmit(kind, form) ==
  /\ React
  /\ quickAdd.isOpen
  /\ ~submitDisabled(kind, form)
  /\ quickAdd' = [quickAdd EXCEPT
       !.loading = TRUE,
       !.req = << [method |-> "POST", path |-> "/transactions",
                   body |-> [f \in DOMAIN form \cup {"type", "description", "date"} |->
                               CASE f = "type"        -> kind
                                 [] f = "amount"      -> parseFloat(form.amount)
                                 [] f = "description" -> <<>>
                                 [] f = "date"        -> now
                                 [] OTHER             -> form[f]]] >>]
  /\ lastOp' = Other
  /\ UNCHANGED <<localVars, reactVars, variant, now, role, srv_categories, srv_events,
                 billDelete, calendarView, categoriesPage, today, agenda>>

\* the POST settles
quickAddResponse(ok) ==
  /\ React
  /\ quickAdd.req # <<>>
  /\ srv_transactions' = IF ok THEN srvCreateTransaction(srv_transactions, quickAdd.req[1].body)
                         ELSE srv_transactions
  /\ quickAdd' = [isOpen |-> IF ok THEN FALSE ELSE quickAdd.isOpen, loading |-> FALSE, req |-> <<>>]
  /\ dashboard' = IF ok THEN fetchDashboardStats(dashboard) ELSE dashboard
  /\ lastOp' = Other
  /\ UNCHANGED <<localVars, variant, now, srv_salaries, srv_bills, salaryCard, billCard,
                 quickExpense, role, srv_categories, srv_events, billDelete, calendarView,
                 categoriesPage, today, agenda>>

\* the dialog is dismissed
quickAddClose ==
  /\ React
  /\ quickAdd.isOpen
  /\ quickAdd' = [quickAdd EXCEPT !.isOpen = FALSE]
  /\ lastOp' = Other
  /\ UNCHANGED <<localVars, reactVars, variant, now, role, srv_categories, srv_events,
                 billDelete, calendarView, categoriesPage, today, agenda>>

(***************************************************************************)
(* The calendar page: CalendarView.js.                                     *)
(***************************************************************************)
CalendarPage == variant = "calendar" /\ ops < MaxOps /\ ops' = ops + 1

TitleInputs == { <<" ">>, <<"Dinner">> }

\* the calendar the event form holds: '' (0) when getUserCalendarId finds none
CalendarIds == {0, 1}

\* a slot of the calendar is selected
handleSelectSlot ==
  /\ CalendarPage
  /\ calendarView' = IF role = "guest" THEN calendarView
                     ELSE [calendarView EXCEPT !.showEventDialog = TRUE]
  /\ lastOp' = Other
  /\ UNCHANGED <<localVars, reactVars, variant, now, role, srv_categories, srv_events,
                 quickAdd, billDelete, categoriesPage, today, agenda>>

\* !eventForm.title.trim() and !eventForm.calendar_id
eventRejected(title, calendar_id) == trim(title) = <<>> \/ calendar_id = 0

createEvent(title, calendar_id) ==
  /\ CalendarPage
  /\ calendarView.showEventDialog
  /\ calendarView' =
       IF eventRejected(title, calendar_id) THEN calendarView
       ELSE [calendarView EXCEPT !.reqs = @ \cup
               { [method |-> "POST", path |-> "/events",
                  body |-> [title |-> title, calendar_id |-> calendar_id, start |-> now]] }]
  /\ lastOp' = Other
  /\ UNCHANGED <<localVars, reactVars, variant, now, role, srv_categories, srv_events,
                 quickAdd, billDelete, categoriesPage, today, agenda>>

closeEventDialog ==
  /\ CalendarPage
  /\ calendarView.showEventDialog
  /\ calendarView' = [calendarView EXCEPT !.showEventDialog = FALSE]
  /\ lastOp' = Other
  /\ UNCHANGED <<localVars, reactVars, variant, now, role, srv_categories, srv_events,
                 quickAdd, billDelete, categoriesPage, today, agenda>>

\* the Email Settings button, shown to every role
openEmailSettings ==
  /\ CalendarPage
  /\ ~calendarView.showEmailSettings
  /\ calendarView' = [calendarView EXCEPT !.showEmailSettings = TRUE]
  /\ lastOp' = Other
  /\ UNCHANGED <<localVars, reactVars, variant, now, role, srv_categories, srv_events,
                 quickAdd, billDelete, categoriesPage, today, agenda>>

saveEmailSettings ==
  /\ CalendarPage
  /\ calendarView.showEmailSettings
  /\ calendarView' = [calendarView EXCEPT !.reqs = @ \cup
                        { [method |-> "PATCH", path |-> "/user/preferences"] }]
  /\ lastOp' = Other
  /\ UNCHANGED <<localVars, reactVars, variant, now, role, srv_categories, srv_events,
                 quickAdd, billDelete, categoriesPage, today, agenda>>

\* server, POST /events
srvCreateEvent(events, body) == Append(events, body)

\* a request of the calendar page settles
calendarResponse(req, ok) ==
  /\ CalendarPage
  /\ req \in calendarView.reqs
  /\ srv_events' = IF ok /\ req.path = "/events" THEN srvCreateEvent(srv_events, req.body)
                   ELSE srv_events
  /\ calendarView' =
       [showEventDialog   |-> calendarView.showEventDialog /\ ~(ok /\ req.path = "/events"),
        showEmailSettings |-> calendarView.showEmailSettings
                              /\ ~(ok /\ req.path = "/user/preferences"),
        reqs              |-> calendarView.reqs \ {req}]
  /\ lastOp' = Other
  /\ UNCHANGED <<localVars, reactVars, variant, now, role, srv_categories,
                 quickAdd, billDelete, categoriesPage, today, agenda>>

(***************************************************************************)
(* The categories page: CategoriesManagement.js.                           *)
(***************************************************************************)
CategoriesPage == variant = "categories" /\ ops < MaxOps /\ ops' = ops + 1

\* user.role !== 'guest' around Merge Categories, Add Category and the edit
\* and delete buttons of a category
showsCategoryWrite(userRole) == userRole # "guest"

CategoryIdsShown == {srv_categories[i].id : i \in 1..Len(srv_categories)}

\* Add Category and Merge Categories
openCategoryDialog(dialog) ==
  /\ CategoriesPage
  /\ showsCategoryWrite(role)
  /\ categoriesPage' = [categoriesPage EXCEPT !.dialog = dialog]
  /\ lastOp' = Other
  /\ UNCHANGED <<localVars, reactVars, variant, now, role, srv_categories, srv_events,
                 quickAdd, billDelete, calendarView, today, agenda>>

openEditDialog(categoryId) ==
  /\ CategoriesPage
  /\ showsCategoryWrite(role)
  /\ categoriesPage' = [categoriesPage EXCEPT !.dialog = "edit", !.editing = categoryId]
  /\ lastOp' = Other
  /\ UNCHANGED <<localVars, reactVars, variant, now, role, srv_categories, srv_events,
                 quickAdd, billDelete, calendarView, today, agenda>>

closeCategoryDialog ==
  /\ CategoriesPage
  /\ categoriesPage.dialog # "none"
  /\ categoriesPage' = [categoriesPage EXCEPT !.dialog = "none"]
  /\ lastOp' = Other
  /\ UNCHANGED <<localVars, reactVars, variant, now, role, srv_categories, srv_events,
                 quickAdd, billDelete, calendarView, today, agenda>>

\* the request a handler of the page sends
sendCategoryRequest(req) ==
  /\ categoriesPage' = [categoriesPage EXCEPT !.reqs = @ \cup {req}]
  /\ lastOp' = Other
  /\ UNCHANGED <<localVars, reactVars, variant, now, role, srv_categories, srv_events,
                 quickAdd, billDelete, calendarView, today, agenda>>

handleCreateCategory(name) ==
  /\ CategoriesPage
  /\ categoriesPage.dialog = "create"
  /\ sendCategoryRequest([method |-> "POST", path |-> "/categories", id |-> 0,
                          body |-> [name |-> name, type |-> "expense"]])

handleEditCategory(name) ==
  /\ CategoriesPage
  /\ categoriesPage.dialog = "edit"
  /\ sendCategoryRequest([method |-> "PATCH", path |-> "/categories", id |-> categoriesPage.editing,
                          body |-> [name |-> name]])

handleDeleteCategory(categoryId, confirmed) ==
  /\ CategoriesPage
  /\ showsCategoryWrite(role)
  /\ IF confirmed
     THEN sendCategoryRequest([method |-> "DELETE", path |-> "/categories", id |-> categoryId,
                               body |-> <<>>])
     ELSE /\ lastOp' = Other
          /\ UNCHANGED <<localVars, reactVars, variant, now, pageVars>>

handleMergeCategories(source, target, confirmed) ==
  /\ CategoriesPage
  /\ categoriesPage.dialog = "merge"
  /\ IF confirmed
     THEN sendCategoryRequest([method |-> "POST", path |-> "/categories/merge", id |-> 0,
                               body |-> [source_category_id |-> source,
                                         target_category_id |-> target]])
     ELSE /\ lastOp' = Other
          /\ UNCHANGED <<localVars, reactVars, variant, now, pageVars>>

\* server: what a request of the page does to the categories.  A deleted
\* category, and the source of a merge, is no longer offered
srvCategoryRequest(categories, req) ==
  CASE req.method = "POST" /\ req.path = "/categories" ->
         Append(categories, [id |-> MaxId(categories) + 1, name |-> req.body.name,
                             type |-> req.body.type])
    [] req.method = "PATCH" ->
         [i \in 1..Len(categories) |->
            IF categories[i].id = req.id
            THEN [categories[i] EXCEPT !.name = req.body.name] ELSE categories[i]]
    [] req.method = "DELETE" ->
         SelectSeq(categories, LAMBDA c : c.id # req.id)
    [] OTHER ->
         SelectSeq(categories, LAMBDA c : c.id # req.body.source_category_id
                                          \/ c.id = req.body.target_category_id)

\* a request of the categories page settles
categoryResponse(req, ok) ==
  /\ CategoriesPage
  /\ req \in categoriesPage.reqs
  /\ srv_categories' = IF ok THEN srvCategoryRequest(srv_categories, req) ELSE srv_categories
  /\ categoriesPage' =
       [categoriesPage EXCEPT !.reqs = @ \ {req},
                              !.dialog = IF ok /\ req.method # "DELETE" THEN "none" ELSE @]
  /\ lastOp' = Other
  /\ UNCHANGED <<localVars, reactVars, variant, now, role, srv_events,
                 quickAdd, billDelete, calendarView, today, agenda>>

(***************************************************************************)
(* The agenda page: AgendaView.js.  The page asks the server for the       *)
(* agenda of the next selectedDays days and shows what it gets.  The       *)
(* server's computeAgenda is not part of the sources: it follows the       *)
(* specification (sections 3 and 4.4).  A date is a record of year, month  *)
(* and day; the start of an event is a date and an hour.                   *)
(***************************************************************************)
IsLeapYear(y) == (y % 4 = 0 /\ y % 100 # 0) \/ y % 400 = 0

DaysInMonth(y, m) ==
  IF m = 2 THEN (IF IsLeapYear(y) THEN 29 ELSE 28)
  ELSE IF m \in {4, 6, 9, 11} THEN 30 ELSE 31

RECURSIVE DaysBeforeMonth(_, _)
DaysBeforeMonth(y, m) ==
  IF m = 1 THEN 0 ELSE DaysBeforeMonth(y, m - 1) + DaysInMonth(y, m - 1)

\* the number of the day of a date, counted from the first of January 2024
DayNumber(d) ==
  (d.year - 2024) * 365 + Cardinality({y \in 2024..(d.year - 1) : IsLeapYear(y)})
  + DaysBeforeMonth(d.year, d.month) + d.day

\* variant of dueDateIn: the due day is taken as it is stored
dueDateIn_NoClamp(y, m, due_day) == [year |-> y, month |-> m, day |-> due_day]

\* the due date of a bill in a month: min(due_day, days_in_that_month)
dueDateIn(y, m, due_day) ==
  [year |-> y, month |-> m,
   day |-> IF due_day <= DaysInMonth(y, m) THEN due_day ELSE DaysInMonth(y, m)]

\* variant of nextDueDate: the due date of this month, passed or not
nextDueDate_ThisMonth(date, due_day) == dueDateIn(date.year, date.month, due_day)

\* the next occurrence of a due day: this month's when it has not passed,
\* else next month's, which after December is January of the next year
nextDueDate(date, due_day) ==
  LET thisMonth == dueDateIn(date.year, date.month, due_day)
  IN  IF DayNumber(thisMonth) >= DayNumber(date) THEN thisMonth
      ELSE IF date.month = 12 THEN dueDateIn(date.year + 1, 1, due_day)
      ELSE dueDateIn(date.year, date.month + 1, due_day)

\* a list in ascending order of its keys, equal keys in the order of the list
SortedBy(list, Key(_)) ==
  LET rank(i) == Cardinality({j \in 1..Len(list) :
                    Key(list[j]) < Key(list[i]) \/ (Key(list[j]) = Key(list[i]) /\ j < i)}) + 1
  IN  [p \in 1..Len(list) |-> list[CHOOSE i \in 1..Len(list) : rank(i) = p]]

\* the hour an event starts, counted from the first of January 2024
StartOf(event) == DayNumber(event.start.date) * 24 + event.start.hour

\* server, GET /agenda?days=: the events that start in [now, now + days] by
\* ascending start, and the active bills whose next due date falls in the
\* same window, with that date, by ascending due date
computeAgenda(days, date, bills, events) ==
  LET inWindow(d) == DayNumber(d) >= DayNumber(date) /\ DayNumber(d) <= DayNumber(date) + days
      dated  == [i \in 1..Len(bills) |->
                   [id |-> bills[i].id, name |-> bills[i].name,
                    amount |-> bills[i].expected_amount, due_day |-> bills[i].due_day,
                    active |-> bills[i].active,
                    due_date |-> nextDueDate(date, bills[i].due_day)]]
      due    == SelectSeq(dated, LAMBDA b : b.active /\ inWindow(b.due_date))
      coming == SelectSeq(events, LAMBDA e : inWindow(e.start.date))
  IN  [events |-> SortedBy(coming, StartOf),
       upcoming_bills |-> SortedBy(due, LAMBDA b : DayNumber(b.due_date))]

\* the buttons 7 days, 14 days, 30 days
DayButtons == {7, 14, 30}

\* axios.get(`/agenda?days=${selectedDays}`)
agendaRequest(selectedDays) == [method |-> "GET", path |-> "/agenda", days |-> selectedDays]

\* loadAgenda up to its await
loadAgenda(selectedDays) ==
  agenda' = [agenda EXCEPT !.selectedDays = selectedDays, !.loading = TRUE,
                           !.req = <<agendaRequest(selectedDays)>>]

\* a day button: setSelectedDays, and the effect on selectedDays loads the agenda
setSelectedDays(days) ==
  /\ variant = "agenda"
  /\ ~agenda.loading
  /\ days # agenda.selectedDays
  /\ loadAgenda(days)
  /\ lastOp' = Other
  /\ UNCHANGED <<localVars, reactVars, variant, ops, now, role, srv_categories, srv_events,
                 quickAdd, billDelete, calendarView, categoriesPage, today>>

\* the Refresh button
refreshAgenda ==
  /\ variant = "agenda"
  /\ ~agenda.loading
  /\ loadAgenda(agenda.selectedDays)
  /\ lastOp' = Other
  /\ UNCHANGED <<localVars, reactVars, variant, ops, now, role, srv_categories, srv_events,
                 quickAdd, billDelete, calendarView, categoriesPage, today>>

\* the GET settles: setAgendaData(response.data), or the toast of the catch
agendaResponse(ok) ==
  /\ variant = "agenda"
  /\ agenda.req # <<>>
  /\ agenda' = [agenda EXCEPT
       !.loading = FALSE, !.req = <<>>,
       !.agendaData = IF ok THEN computeAgenda(agenda.req[1].days, today, srv_bills, srv_events)
                      ELSE @]
  /\ lastOp' = IF ok THEN [op |-> "loadAgenda"] ELSE Other
  /\ UNCHANGED <<localVars, reactVars, variant, ops, now, role, srv_categories, srv_events,
                 quickAdd, billDelete, calendarView, categoriesPage, today>>

\* groupBillsByDate, and the same grouping of the events by the date of their start
groupBillsByDate(bills, date) == SelectSeq(bills, LAMBDA b : b.due_date = date)

groupEventsByDate(events, date) == SelectSeq(events, LAMBDA e : e.start.date = date)

\* the dates that hold an event or a bill, in ascending order
allDates(data) ==
  LET dates == {data.events[i].start.date : i \in 1..Len(data.events)}
               \cup {data.upcoming_bills[i].due_date : i \in 1..Len(data.upcoming_bills)}
      rank(d) == Cardinality({e \in dates : DayNumber(e) < DayNumber(d)}) + 1
  IN  [p \in 1..Cardinality(dates) |-> CHOOSE d \in dates : rank(d) = p]

\* variant of itemsOfDate: the bills of the date before its events
itemsOfDate_BillsFirst(data, date) ==
  [i \in 1..Len(groupBillsByDate(data.upcoming_bills, date)) |->
     [kind |-> "bill", date |-> date, id |-> groupBillsByDate(data.upcoming_bills, date)[i].id]]
  \o [i \in 1..Len(groupEventsByDate(data.events, date)) |->
        [kind |-> "event", date |-> date, id |-> groupEventsByDate(data.events, date)[i].id]]

\* the card of a date: its events, then its bills
itemsOfDate(data, date) ==
  [i \in 1..Len(groupEventsByDate(data.events, date)) |->
     [kind |-> "event", date |-> date, id |-> groupEventsByDate(data.events, date)[i].id]]
  \o [i \in 1..Len(groupBillsByDate(data.upcoming_bills, date)) |->
        [kind |-> "bill", date |-> date, id |-> groupBillsByDate(data.upcoming_bills, date)[i].id]]

\* allDates.map: the items of the page from top to bottom
RECURSIVE itemsOfDates(_, _)
itemsOfDates(data, dates) ==
  IF dates = <<>> THEN <<>>
  ELSE itemsOfDate(data, Head(dates)) \o itemsOfDates(data, Tail(dates))

agendaItems(data) == itemsOfDates(data, allDates(data))

(***************************************************************************)
(* The specification.                                                      *)
(***************************************************************************)
\* the server's collections and the React dashboard after its first render
reactAtStart ==
  /\ srv_salaries = << [key |-> LoggedInUser, val |-> 4200] >>
  /\ srv_bills = << [id |-> 1, name |-> <<"Electricity Bill">>, due_day |-> 15,
                     expected_amount |-> 95, category_id |-> 2] >>
  /\ srv_events = <<>>
  /\ quickAdd = [isOpen |-> FALSE, loading |-> FALSE, req |-> <<>>]
  /\ billDelete = {}
  /\ calendarView = [showEventDialog |-> FALSE, showEmailSettings |-> FALSE, reqs |-> {}]
  /\ categoriesPage = [dialog |-> "none", editing |-> 0, reqs |-> {}]
  /\ today = [year |-> 2025, month |-> 1, day |-> 1]
  /\ agenda = [selectedDays |-> 7, loading |-> FALSE, req |-> <<>>,
               agendaData |-> [events |-> <<>>, upcoming_bills |-> <<>>]]
  /\ srv_transactions = <<>>
  /\ salaryCard = [isEditing |-> FALSE, loading |-> FALSE, req |-> <<>>]
  /\ billCard = billCardMounted(srv_bills[1])
  /\ quickExpense = [isOpen |-> FALSE, loading |-> FALSE, pc |-> "idle", form |-> <<>>, req |-> <<>>]
  /\ dashboard = dashboardLoaded(dashboardData(srv_salaries, srv_bills, srv_transactions))

\* the categories the household may have set up
DefaultCategories ==
  << [id |-> 1, name |-> <<"Salary">>, type |-> "income"],
     [id |-> 2, name |-> <<"Groceries">>, type |-> "expense"],
     [id |-> 3, name |-> <<"Other ", "Miscellaneous">>, type |-> "expense"] >>

CategoryLists ==
  { DefaultCategories,
    << [id |-> 1, name |-> <<"Miscellaneous">>, type |-> "income"],
       [id |-> 2, name |-> <<"Groceries">>, type |-> "expense"],
       [id |-> 4, name |-> <<"Transport">>, type |-> "expense"] >>,
    << [id |-> 1, name |-> <<"Salary">>, type |-> "income"] >> }

\* the page has loaded over a localStorage that holds the seeded salaries,
\* the first InitBills seeded bills and no transaction
Init ==
  /\ variant \in {"standalone", "react", "calendar", "categories"}
  /\ role \in (IF variant = "standalone" THEN {"owner"} ELSE Roles)
  /\ srv_categories \in (IF variant = "react" /\ role = "owner" THEN CategoryLists
                         ELSE {DefaultCategories})
  /\ ops = 0
  /\ now = Epoch
  /\ ls_salaries = setData(defaultSalaries)
  /\ ls_bills = setData(SubSeq(defaultBills, 1, InitBills))
  /\ ls_transactions = setData(<<>>)
  /\ currentSalaryUser = ""
  /\ editPrompt = <<>>
  /\ dom = updateDashboard(blankPage, ls_salaries, ls_bills, ls_transactions)
  /\ salaryInput = [u \in Users |-> Seed]
  /\ lastOp = [op |-> "pageLoad"]
  /\ reactAtStart

Next ==
  \/ Tick
  \/ pageLoad
  \/ \E user \in Users : editSalary(user)
  \/ \E input \in AmountInputs : saveSalary(input)
  \/ \E d \in NameInputs, a \in AmountInputs : saveExpense(d, a)
  \/ \E n \in NameInputs, a \in AmountInputs, d \in DueDayInputs : saveBill(n, a, d)
  \/ \E b \in ClickableBillIds, r \in PromptResults : editBill(b, r[1], r[2])
  \/ \E b \in ClickableBillIds, c \in BOOLEAN : deleteBill(b, c)
  \/ salaryCardEdit
  \/ \E t \in NumberInputs : handleUpdateSalary(t)
  \/ \E ok \in BOOLEAN : salaryResponse(ok)
  \/ salaryCardCancel
  \/ billCardEdit
  \/ \E a \in NumberInputs, d \in DueNumberInputs \cup {billCard.newDueDay} : handleUpdateBill(a, d)
  \/ \E a \in NumberInputs : handleUpdateBillAmountOnly(a)
  \/ \E ok \in BOOLEAN : billResponse(ok)
  \/ billCardCancel
  \/ openQuickExpense
  \/ \E n \in NameInputs, a \in NumberInputs, d \in DueNumberInputs, r \in BOOLEAN :
       handleAddExpense(n, a, d, r)
  \/ \E ok \in BOOLEAN, accounts \in AccountLists : lookupResponse(ok, accounts)
  \/ \E ok \in BOOLEAN : postResponse(ok)
  \/ quickExpenseCancel
  \/ \E b \in 1..2, c \in BOOLEAN : deleteBillClick(b, c)
  \/ \E b \in billDelete, ok \in BOOLEAN : deleteBillResponse(b, ok)
  \/ \E f \in dashboard.fetches : fetchServed(f)
  \/ \E f \in dashboard.fetches, ok \in BOOLEAN : fetchSettled(f, ok)
  \/ openQuickAdd
  \/ \E k \in TransactionKinds : \E f \in QuickAddForms(k) : handleSubmit(k, f)
  \/ \E ok \in BOOLEAN : quickAddResponse(ok)
  \/ quickAddClose
  \/ handleSelectSlot
  \/ \E t \in TitleInputs, c \in CalendarIds : createEvent(t, c)
  \/ closeEventDialog
  \/ openEmailSettings
  \/ saveEmailSettings
  \/ \E r \in calendarView.reqs, ok \in BOOLEAN : calendarResponse(r, ok)
  \/ \E d \in {"create", "merge"} : openCategoryDialog(d)
  \/ \E c \in CategoryIdsShown : openEditDialog(c)
  \/ closeCategoryDialog
  \/ handleCreateCategory(<<"Pets">>)
  \/ handleEditCategory(<<"Pets">>)
  \/ \E c \in CategoryIdsShown, ok \in BOOLEAN : handleDeleteCategory(c, ok)
  \/ \E ok \in BOOLEAN : handleMergeCategories(2, 3, ok)
  \/ \E r \in categoriesPage.reqs, ok \in BOOLEAN : categoryResponse(r, ok)

Spec == Init /\ [][Next]_vars

(***************************************************************************)
(* The dashboard computation on its own: updateDashboard applied to a      *)
(* localStorage that earlier sessions, or the browser's clearing of the    *)
(* site's data, have left in any of the shapes below.                      *)
(***************************************************************************)
SalaryStores ==
  { <<>>,
    setData(<<>>),
    setData(<< [key |-> "harish", val |-> 0], [key |-> "durga", val |-> 0] >>),
    setData(<< [key |-> "durga", val |-> 3] >>),
    setData(<< [key |-> "harish", val |-> 1200], [key |-> "durga", val |-> 800] >>),
    setData(<< [key |-> "harish", val |-> -5], [key |-> "durga", val |-> 0] >>),
    setData(defaultSalaries) }

BillStores ==
  { <<>>,
    setData(<<>>),
    setData(<< [id |-> 1, name |-> <<"Water Bill">>, amount |-> 1, dueDay |-> 5] >>),
    setData(<< [id |-> 1, name |-> <<"Water Bill">>, amount |-> 1, dueDay |-> 5],
               [id |-> 6, name |-> <<"Home Loan EMI">>, amount |-> 1996, dueDay |-> 1] >>) }

TransactionStores ==
  { <<>>,
    setData(<<>>),
    setData(<< [id |-> Epoch, description |-> <<"Coffee">>, amount |-> 1, date |-> Epoch] >>),
    setData(<< [id |-> Epoch, description |-> <<"Coffee">>, amount |-> 1, date |-> Epoch],
               [id |-> Epoch + 1, description |-> <<"Rent">>, amount |-> 5, date |-> Epoch + 1] >>),
    setData([i \in 1..(RecentCount + 2) |->
               [id |-> Epoch + i, description |-> <<"Coffee">>, amount |-> i, date |-> Epoch + i]]) }

\* a handler calls updateDashboard
computeStats ==
  /\ Standalone0
  /\ lastOp = Other
  /\ dom' = updateDashboard(dom, ls_salaries, ls_bills, ls_transactions)
  /\ lastOp' = [op |-> "updateDashboard"]
  /\ UNCHANGED <<editPrompt, reactVars, pageVars, variant, ops, now, ls_salaries, ls_bills, ls_transactions,
                 currentSalaryUser, salaryInput>>

StatsInit ==
  /\ variant = "standalone"
  /\ role = "owner"
  /\ srv_categories = DefaultCategories
  /\ ops = 0
  /\ now = Epoch
  /\ ls_salaries \in SalaryStores
  /\ ls_bills \in BillStores
  /\ ls_transactions \in TransactionStores
  /\ currentSalaryUser = ""
  /\ editPrompt = <<>>
  /\ dom = blankPage
  /\ salaryInput = [u \in Users |-> Seed]
  /\ lastOp = Other
  /\ reactAtStart

StatsNext == computeStats

StatsSpec == StatsInit /\ [][StatsNext]_vars

(***************************************************************************)
(* The dashboard with requests of its cards and of its delete buttons in   *)
(* flight: their responses, and the refreshes they start, arrive in any    *)
(* order.                                                                  *)
(***************************************************************************)
RefreshBillLists ==
  { << [id |-> 1, name |-> <<"Electricity Bill">>, due_day |-> 15,
        expected_amount |-> 95, category_id |-> 2] >>,
    << [id |-> 1, name |-> <<"Electricity Bill">>, due_day |-> 15,
        expected_amount |-> 95, category_id |-> 2],
       [id |-> 2, name |-> <<"Water Bill">>, due_day |-> 5,
        expected_amount |-> 30, category_id |-> 2] >> }

RefreshInit ==
  /\ variant = "react"
  /\ role = "owner"
  /\ srv_categories = DefaultCategories
  /\ ops = 0
  /\ now = Epoch
  /\ ls_salaries = setData(defaultSalaries)
  /\ ls_bills = setData(SubSeq(defaultBills, 1, InitBills))
  /\ ls_transactions = setData(<<>>)
  /\ currentSalaryUser = ""
  /\ editPrompt = <<>>
  /\ dom = blankPage
  /\ salaryInput = [u \in Users |-> Seed]
  /\ lastOp = Other
  /\ srv_salaries = << [key |-> LoggedInUser, val |-> 4200] >>
  /\ srv_bills \in RefreshBillLists
  /\ srv_events = <<>>
  /\ srv_transactions = <<>>
  /\ today = [year |-> 2025, month |-> 1, day |-> 1]
  /\ agenda = [selectedDays |-> 7, loading |-> FALSE, req |-> <<>>,
               agendaData |-> [events |-> <<>>, upcoming_bills |-> <<>>]]
  /\ quickAdd = [isOpen |-> FALSE, loading |-> FALSE, req |-> <<>>]
  /\ calendarView = [showEventDialog |-> FALSE, showEmailSettings |-> FALSE, reqs |-> {}]
  /\ categoriesPage = [dialog |-> "none", editing |-> 0, reqs |-> {}]
  /\ quickExpense = [isOpen |-> FALSE, loading |-> FALSE, pc |-> "idle", form |-> <<>>, req |-> <<>>]
  /\ salaryCard \in
       { [isEditing |-> FALSE, loading |-> FALSE, req |-> <<>>],
         [isEditing |-> TRUE, loading |-> TRUE,
          req |-> << [method |-> "PATCH", path |-> "/salary/update", new_salary |-> 5000] >>] }
  /\ billCard \in
       { billCardMounted(srv_bills[1]),
         [billCardMounted(srv_bills[1]) EXCEPT !.isEditing = TRUE],
         [billCardMounted(srv_bills[1]) EXCEPT
            !.isEditing = TRUE, !.loading = TRUE, !.savedOver = 15,
            !.req = << [method |-> "PATCH", path |-> "/bills", id |-> CardBillId,
                        body |-> [expected_amount |-> 120, due_day |-> 15]] >>] }
  /\ billDelete \in {{}, {1}}
  /\ dashboard = dashboardLoaded(dashboardData(srv_salaries, srv_bills, srv_transactions))

\* the responses arrive; fetchFailed tells whether a GET of a refresh may fail
RefreshSteps(fetchFailed) ==
  \/ \E ok \in BOOLEAN : salaryResponse(ok)
  \/ \E ok \in BOOLEAN : billResponse(ok)
  \/ \E b \in 1..2, c \in BOOLEAN : deleteBillClick(b, c)
  \/ \E b \in billDelete, ok \in BOOLEAN : deleteBillResponse(b, ok)
  \/ \E f \in dashboard.fetches : fetchServed(f)
  \/ \E f \in dashboard.fetches, ok \in BOOLEAN : (ok \/ fetchFailed) /\ fetchSettled(f, ok)

RefreshNext == RefreshSteps(TRUE)

\* another client of the same server changes the due day of the card's bill
otherClientPatchBill(due_day) ==
  /\ React
  /\ srv_bills' = srvPatchBill(srv_bills, CardBillId, [due_day |-> due_day])
  /\ lastOp' = Other
  /\ UNCHANGED <<localVars, pageVars, variant, now, srv_salaries, srv_transactions, salaryCard,
                 billCard, quickExpense, dashboard>>

\* the dashboard of one client while another client works on the same bills
ClientsNext ==
  \/ RefreshNext
  \/ \E due_day \in {20} : otherClientPatchBill(due_day)
  \/ billCardEdit
  \/ \E a \in NumberInputs, d \in DueNumberInputs \cup {billCard.newDueDay} : handleUpdateBill(a, d)
  \/ billCardCancel

ClientsSpec == RefreshInit /\ [][ClientsNext]_vars

RefreshSpec == RefreshInit /\ [][RefreshNext]_vars

\* the same with a network that answers every GET of a refresh: a refresh
\* in flight is served, and a served one settles
RefreshLiveNext == RefreshSteps(FALSE)

RefreshLive ==
  /\ RefreshInit
  /\ [][RefreshLiveNext]_vars
  /\ WF_vars(\E f \in dashboard.fetches : fetchServed(f))
  /\ WF_vars(\E f \in dashboard.fetches : fetchSettled(f, TRUE))

(***************************************************************************)
(* Two tabs of the standalone page: this tab edits bills, and the other    *)
(* tab adds, edits and deletes bills while a prompt of this tab is open or *)
(* closed.                                                                 *)
(***************************************************************************)
TabsInit ==
  /\ variant = "standalone"
  /\ role = "owner"
  /\ srv_categories = DefaultCategories
  /\ ops = 0
  /\ now = Epoch
  /\ ls_salaries = setData(defaultSalaries)
  /\ ls_bills \in {setData(SubSeq(defaultBills, 1, n)) : n \in 1..2}
  /\ ls_transactions = setData(<<>>)
  /\ currentSalaryUser = ""
  /\ editPrompt = <<>>
  /\ dom = updateDashboard(blankPage, ls_salaries, ls_bills, ls_transactions)
  /\ salaryInput = [u \in Users |-> Seed]
  /\ lastOp = [op |-> "pageLoad"]
  /\ reactAtStart

TabsNext ==
  \/ Tick
  \/ \E b \in ClickableBillIds : editBillPrompt(b)
  \/ \E r \in PromptResults : editBillAnswer(r[1], r[2])
  \/ otherTabSaveBill(<<"Gym">>, 20, DefaultDueDay)
  \/ \E b \in 1..2 : otherTabEditBill(b, 55)
  \/ \E b \in 1..2 : otherTabDeleteBill(b)

TabsSpec == TabsInit /\ [][TabsNext]_vars

(***************************************************************************)
(* Loading the page over a localStorage in any of the shapes above, keys   *)
(* never written included, and deleting bills between the loads.           *)
(***************************************************************************)
ReloadNext ==
  \/ pageLoad
  \/ \E b \in ClickableBillIds, c \in BOOLEAN : deleteBill(b, c)

ReloadSpec == StatsInit /\ [][ReloadNext]_vars

(***************************************************************************)
(* The dashboard computation over stored amounts that are not numbers: a   *)
(* string, as a hand-edited or imported store holds, or null, which is     *)
(* what JSON.stringify writes for the amount Infinity that editBill,       *)
(* saveBill and saveExpense accept.                                        *)
(***************************************************************************)
MalformedBillStores ==
  { setData(<< [id |-> 1, name |-> <<"Water Bill">>, amount_json |-> StringToJSON(<<"a", "b", "c">>), dueDay |-> 5] >>),
    setData(<< [id |-> 1, name |-> <<"Water Bill">>, amount |-> 30, dueDay |-> 5],
               [id |-> 2, name |-> <<"Mobile Phone">>, amount_json |-> StringToJSON(<<"4", "5">>), dueDay |-> 10] >>),
    setData(<< [id |-> 1, name |-> <<"Water Bill">>, amount_json |-> <<"n", "u", "l", "l">>, dueDay |-> 5],
               [id |-> 6, name |-> <<"Home Loan EMI">>, amount |-> 1000, dueDay |-> 1] >>) }

MalformedTransactionStores ==
  { setData(<< [id |-> Epoch, description |-> <<"Coffee">>, amount_json |-> StringToJSON(<<"a", "b", "c">>), date |-> Epoch] >>),
    setData(<< [id |-> Epoch, description |-> <<"Coffee">>, amount |-> 3, date |-> Epoch],
               [id |-> Epoch + 1, description |-> <<"Rent">>, amount_json |-> <<"n", "u", "l", "l">>, date |-> Epoch + 1] >>),
    setData(<< [id |-> Epoch, description |-> <<"Rent">>, amount |-> 5, date |-> Epoch],
               [id |-> Epoch + 1, description |-> <<"Coffee">>, amount_json |-> StringToJSON(<<"7">>), date |-> Epoch + 1] >>) }

IntegrityInit ==
  /\ variant = "standalone"
  /\ role = "owner"
  /\ srv_categories = DefaultCategories
  /\ ops = 0
  /\ now = Epoch
  /\ ls_salaries \in SalaryStores
  /\ ls_bills \in BillStores \cup MalformedBillStores
  /\ ls_transactions \in TransactionStores \cup MalformedTransactionStores
  /\ currentSalaryUser = ""
  /\ editPrompt = <<>>
  /\ dom = blankPage
  /\ salaryInput = [u \in Users |-> Seed]
  /\ lastOp = Other
  /\ reactAtStart

IntegrityNext == computeStats

IntegritySpec == IntegrityInit /\ [][IntegrityNext]_vars

(***************************************************************************)
(* The agenda page on its own, over the bills and the events the server    *)
(* may hold and on the days below.  The page loads the agenda when it is   *)
(* mounted.                                                                *)
(***************************************************************************)
AgendaDates ==
  { [year |-> 2025, month |-> 1,  day |-> 20],
    [year |-> 2025, month |-> 4,  day |-> 25],
    [year |-> 2025, month |-> 2,  day |-> 24],
    [year |-> 2024, month |-> 2,  day |-> 24],
    [year |-> 2025, month |-> 12, day |-> 28],
    [year |-> 2025, month |-> 3,  day |-> 3] }

AgendaBill(id, due_day, active) ==
  [id |-> id, name |-> <<"Bill">>, due_day |-> due_day, expected_amount |-> 95,
   category_id |-> 2, active |-> active]

AgendaBillLists ==
  { <<>>,
    << AgendaBill(1, 31, TRUE), AgendaBill(2, 3, TRUE), AgendaBill(3, 25, TRUE),
       AgendaBill(4, 1, FALSE) >>,
    << AgendaBill(1, 15, TRUE), AgendaBill(2, 30, TRUE), AgendaBill(3, 29, TRUE),
       AgendaBill(4, 3, TRUE) >> }

\* an event and the date and hour of its start
AgendaEvent(id, date, hour) ==
  [id |-> id, title |-> <<"Dinner">>, start |-> [date |-> date, hour |-> hour]]

AgendaEventLists ==
  { <<>>,
    << AgendaEvent(1, nextDueDate(today, 3), 18), AgendaEvent(2, today, 20),
       AgendaEvent(3, today, 9), AgendaEvent(4, nextDueDate(today, 31), 12) >> }

AgendaInit ==
  /\ variant = "agenda"
  /\ role \in Roles
  /\ srv_categories = DefaultCategories
  /\ ops = 0
  /\ now = Epoch
  /\ ls_salaries = setData(defaultSalaries)
  /\ ls_bills = setData(SubSeq(defaultBills, 1, InitBills))
  /\ ls_transactions = setData(<<>>)
  /\ currentSalaryUser = ""
  /\ editPrompt = <<>>
  /\ dom = blankPage
  /\ salaryInput = [u \in Users |-> Seed]
  /\ lastOp = Other
  /\ srv_salaries = << [key |-> LoggedInUser, val |-> 4200] >>
  /\ today \in AgendaDates
  /\ srv_bills \in AgendaBillLists
  /\ srv_events \in AgendaEventLists
  /\ srv_transactions = <<>>
  /\ quickAdd = [isOpen |-> FALSE, loading |-> FALSE, req |-> <<>>]
  /\ billDelete = {}
  /\ calendarView = [showEventDialog |-> FALSE, showEmailSettings |-> FALSE, reqs |-> {}]
  /\ categoriesPage = [dialog |-> "none", editing |-> 0, reqs |-> {}]
  /\ salaryCard = [isEditing |-> FALSE, loading |-> FALSE, req |-> <<>>]
  /\ billCard = [isEditing |-> FALSE, loading |-> FALSE, req |-> <<>>,
                 newDueDay |-> <<>>, touched |-> FALSE, savedOver |-> 0]
  /\ quickExpense = [isOpen |-> FALSE, loading |-> FALSE, pc |-> "idle", form |-> <<>>, req |-> <<>>]
  /\ dashboard = dashboardLoaded(dashboardData(srv_salaries, srv_bills, srv_transactions))
  /\ agenda = [selectedDays |-> 7, loading |-> TRUE, req |-> <<agendaRequest(7)>>,
               agendaData |-> [events |-> <<>>, upcoming_bills |-> <<>>]]

AgendaNext ==
  \/ \E d \in DayButtons : setSelectedDays(d)
  \/ refreshAgenda
  \/ \E ok \in BOOLEAN : agendaResponse(ok)

AgendaSpec == AgendaInit /\ [][AgendaNext]_vars

TypeOK ==
  /\ variant \in {"standalone", "react", "calendar", "categories", "agenda"}
  /\ role \in Roles
  /\ ops \in 0..MaxOps
  /\ now \in Epoch..(Epoch + MaxOps)
  /\ Len(ls_salaries) <= 1 /\ Len(ls_bills) <= 1 /\ Len(ls_transactions) <= 1

(***************************************************************************)
(* Properties.                                                             *)
(***************************************************************************)
storedSalaries == getData(ls_salaries)

storedBills == getData(ls_bills)

storedTransactions == getData(ls_transactions)

shownSalary(u) == IF u = "harish" THEN dom.harishSalary ELSE dom.durgaSalary

\* the amount of the last salary update of user u, the seeded one before any
lastUpdateAmount(u) ==
  IF salaryInput[u] = Seed THEN GetOr0(defaultSalaries, u)
  ELSE ParseFloatOr(salaryInput[u], 0)

\* the sum of the amounts of the records of s, from the front
RECURSIVE Total(_)
Total(s) == IF s = <<>> THEN 0 ELSE Head(s).amount + Total(Tail(s))

MonthOf(t) == t \div TicksPerMonth

\* C1: the income shown for each user, and the income total, is the amount of
\* that user's most recent salary update, whatever other operations ran
C1_IncomeIsLastUpdate ==
  Standalone0 =>
    /\ \A u \in Users :
         shownSalary(u) = lastUpdateAmount(u) /\ GetOr0(storedSalaries, u) = lastUpdateAmount(u)
    /\ dom.monthlyIncome = lastUpdateAmount("harish") + lastUpdateAmount("durga")

\* a user's seeded salary has been updated, and a bill operation ran as well
C1_Witness ==
  /\ Standalone0
  /\ salaryInput["harish"] = <<"7", "a">> /\ dom.harishSalary = 7
  /\ storedBills # SubSeq(defaultBills, 1, InitBills)

\* C2: in every state the salary store of the standalone page, and the
\* salary collection of the server, hold at most one record per user
C2_OneSalaryPerUser ==
  \A u \in Users :
    /\ Cardinality({i \in 1..Len(storedSalaries) : storedSalaries[i].key = u}) <= 1
    /\ Cardinality({i \in 1..Len(srv_salaries) : srv_salaries[i].key = u}) <= 1

\* a user's salary has been updated
C2_Witness ==
  \E u \in Users : salaryInput[u] # Seed /\ HasKey(storedSalaries, u)

\* C3: a user who has a salary record keeps one across every step, and its
\* amount is the previous one or the one of the update; the same holds of
\* the server's collection, where the amount of an update is the one of the
\* single PATCH the card sent
C3_UpdateIsAllOrNothing ==
  [][\A u \in Users :
       /\ HasKey(storedSalaries, u) =>
            /\ HasKey(storedSalaries', u)
            /\ \/ GetOr0(storedSalaries', u) = GetOr0(storedSalaries, u)
               \/ /\ salaryInput'[u] # Seed
                  /\ GetOr0(storedSalaries', u) = ParseFloatOr(salaryInput'[u], 0)
       /\ HasKey(srv_salaries, u) =>
            /\ HasKey(srv_salaries', u)
            /\ \/ GetOr0(srv_salaries', u) = GetOr0(srv_salaries, u)
               \/ /\ salaryCard.req # <<>>
                  /\ GetOr0(srv_salaries', u) = salaryCard.req[1].new_salary]_vars

\* a user who had the seeded salary now has the updated one
C3_Witness ==
  \E u \in Users :
    /\ salaryInput[u] = <<"7", "a">>
    /\ GetOr0(storedSalaries, u) = 7
    /\ currentSalaryUser = u

\* C4 as claimed: a salary update with a zero, negative or non-numeric amount
\* leaves the stored salaries as they were, and the React card sends no
\* request for such an amount
C4_InvalidSalaryRejected ==
  [][/\ \A u \in Users :
          ( /\ salaryInput'[u] # salaryInput[u]
            /\ (ParsesToNaN(salaryInput'[u]) \/ parseFloat(salaryInput'[u]) <= 0) )
          => ls_salaries' = ls_salaries
     /\ salaryCard'.req # <<>> => salaryCard'.req[1].new_salary > 0]_vars

\* C5 as claimed: every stored bill, of the standalone page and of the
\* server, has a due day in 1..31
C5_DueDayInRange ==
  /\ \A i \in 1..Len(storedBills) : storedBills[i].dueDay \in 1..31
  /\ \A i \in 1..Len(srv_bills) : srv_bills[i].due_day \in 1..31

\* C6: an edit of a bill's amount keeps the number and order of the bills,
\* every id, name and due day, and every bill but the first one with the
\* edited id; salaries and transactions stay as they were.  The React card
\* without a due-day field sends the amount alone, and the bills of the
\* server keep their ids, names and due days when its PATCH is carried out
C6_EditAmountFrame ==
  [][/\ lastOp'.op = "editBill" =>
          /\ Len(storedBills') = Len(storedBills)
          /\ \A i \in 1..Len(storedBills) :
               /\ storedBills'[i].id = storedBills[i].id
               /\ storedBills'[i].name = storedBills[i].name
               /\ storedBills'[i].dueDay = storedBills[i].dueDay
               /\ storedBills'[i] # storedBills[i] =>
                    /\ storedBills[i].id = lastOp'.id
                    /\ \A j \in 1..(i - 1) : storedBills[j].id # lastOp'.id
          /\ dom'.bills = storedBills'
          /\ ls_salaries' = ls_salaries
          /\ ls_transactions' = ls_transactions
     /\ ( /\ billCard.req # <<>>
          /\ billCard'.req = <<>>
          /\ DOMAIN billCard.req[1].body = {"expected_amount"} ) =>
          /\ Len(srv_bills') = Len(srv_bills)
          /\ \A i \in 1..Len(srv_bills) :
               /\ srv_bills'[i].id = srv_bills[i].id
               /\ srv_bills'[i].name = srv_bills[i].name
               /\ srv_bills'[i].due_day = srv_bills[i].due_day
               /\ srv_bills'[i] # srv_bills[i] => srv_bills[i].id = billCard.req[1].id]_vars

\* a bill was edited to a new amount while another bill is stored
C6_Witness ==
  /\ lastOp.op = "editBill"
  /\ Len(storedBills) >= 2
  /\ \E i \in 1..Len(storedBills) :
       /\ storedBills[i].id = lastOp.id
       /\ storedBills[i].amount = -5
       /\ storedBills[i].dueDay = 45

\* C7: a deletion removes every bill with the id and nothing else, from the
\* store, from the bill list on display and from the expense total; the
\* transactions stay; deleting an id that is not stored changes nothing
C7_DeleteBill ==
  [][lastOp'.op = "deleteBill" =>
       LET kept == SelectSeq(storedBills, LAMBDA b : b.id # lastOp'.id)
       IN  /\ storedBills' = kept
           /\ \A i \in 1..Len(dom'.bills) : dom'.bills[i].id # lastOp'.id
           /\ dom'.bills = kept
           /\ dom'.monthlyExpenses = Total(kept) + Total(storedTransactions)
           /\ ls_transactions' = ls_transactions
           /\ dom'.transactions = dom.transactions
           /\ ls_salaries' = ls_salaries
           /\ (\A i \in 1..Len(storedBills) : storedBills[i].id # lastOp'.id)
                => (ls_bills' = ls_bills /\ dom' = dom)]_vars

\* the seeded bill 1 was deleted while a transaction and another bill are stored
C7_Witness ==
  /\ lastOp = [op |-> "deleteBill", id |-> 1]
  /\ storedTransactions # <<>>
  /\ storedBills # <<>>

\* C8: the expenses on display are the bills plus the transactions, and the
\* surplus is income minus expenses
C8_Totals ==
  Standalone0 =>
    /\ dom.monthlyExpenses = Total(storedBills) + Total(storedTransactions)
    /\ dom.monthlyIncome = GetOr0(storedSalaries, "harish") + GetOr0(storedSalaries, "durga")
    /\ dom.monthlySurplus = dom.monthlyIncome - dom.monthlyExpenses

\* a transaction and a bill are stored and a salary is no longer the seeded one
C8_Witness ==
  /\ Standalone0
  /\ \E u \in Users : salaryInput[u] # Seed
  /\ storedTransactions # <<>>
  /\ storedBills # <<>>

\* C9 as claimed: the expenses computed at a page load are the bills plus the
\* transactions dated in the current month
C9_OnlyThisMonth ==
  (Standalone0 /\ lastOp.op = "pageLoad") =>
    dom.monthlyExpenses =
      Total(storedBills)
      + Total(SelectSeq(storedTransactions, LAMBDA t : MonthOf(t.date) = MonthOf(now)))

\* the due day typed in the dialog is a day of the month
validDueDate(dueDate) ==
  dueDate # <<>> /\ ~ParsesToNaN(dueDate) /\ parseInt(dueDate) \in 1..31

\* C10: a new transaction raises the expenses by its amount and leaves the
\* bills' share, the sum of the bill amounts, as it was, also when it bears
\* the name of a bill; a new bill raises the expenses by its amount and adds
\* no transaction.  In the quick expense dialog a submit that succeeds adds
\* one record: for a recurring bill with a valid due day it is the bill,
\* with the name, amount and due day typed, and no transaction
C10_BillOnceNoTransaction ==
  [][/\ Len(storedBills') > Len(storedBills) =>
          /\ ls_transactions' = ls_transactions
          /\ dom'.monthlyExpenses
               = dom.monthlyExpenses + storedBills'[Len(storedBills')].amount
     /\ Len(storedTransactions') > Len(storedTransactions) =>
          /\ ls_bills' = ls_bills
          /\ dom'.monthlyExpenses
               = dom.monthlyExpenses + storedTransactions'[Len(storedTransactions')].amount
          /\ dom'.monthlyExpenses - Total(storedTransactions') = Total(storedBills)
     /\ lastOp'.op = "quickExpense" =>
          /\ Len(srv_bills') + Len(srv_transactions')
               = Len(srv_bills) + Len(srv_transactions) + 1
          /\ (lastOp'.form.isRecurringBill /\ validDueDate(lastOp'.form.dueDate)) =>
               /\ srv_transactions' = srv_transactions
               /\ Len(srv_bills') = Len(srv_bills) + 1
               /\ SubSeq(srv_bills', 1, Len(srv_bills)) = srv_bills
               /\ LET bill == srv_bills'[Len(srv_bills')]
                  IN  /\ bill.name = trim(lastOp'.form.description)
                      /\ bill.expected_amount = parseFloat(lastOp'.form.amount)
                      /\ bill.due_day = parseInt(lastOp'.form.dueDate)]_vars

\* the dialog has created a recurring bill
C10_Witness ==
  /\ lastOp.op = "quickExpense"
  /\ lastOp.form.isRecurringBill
  /\ Len(srv_bills) = 2
  /\ srv_bills[2].due_day = 9
  /\ srv_transactions = <<>>

\* the ids of the categories of the server
CategoryIds == {srv_categories[i].id : i \in 1..Len(srv_categories)}

\* the positions of the expense categories, and of those named Miscellaneous
ExpensePositions == {i \in 1..Len(srv_categories) : srv_categories[i].type = "expense"}

MiscellaneousPositions ==
  {i \in ExpensePositions :
     \E k \in 1..Len(srv_categories[i].name) :
        ToLowerCase(srv_categories[i].name)[k] = "miscellaneous"}

LeastOf(S) == CHOOSE i \in S : \A j \in S : i <= j

\* the quick expense of the last step was sent as a transaction
quickExpenseAsTransaction(op) ==
  op.op = "quickExpense" /\ ~(op.form.isRecurringBill /\ op.form.dueDate # <<>>)

\* C11: an expense added without a category raises the total expenses by its
\* amount and the breakdown of the default expense category (Miscellaneous,
\* else the first expense category) by its amount, and leaves every other
\* category's total, the bills and the income as they were; on the standalone
\* page, which has no categories, the expenses shown rise by the amount and
\* the income and the bills stay
C11_ExpenseFrame ==
  [][ /\ lastOp'.op = "saveExpense" =>
           /\ dom'.monthlyExpenses = dom.monthlyExpenses + parseFloat(lastOp'.amount)
           /\ dom'.monthlyIncome = dom.monthlyIncome
           /\ dom'.harishSalary = dom.harishSalary /\ dom'.durgaSalary = dom.durgaSalary
           /\ dom'.bills = dom.bills /\ storedBills' = storedBills
           /\ storedSalaries' = storedSalaries
      /\ quickExpenseAsTransaction(lastOp') =>
           LET x == parseFloat(lastOp'.form.amount)
               default == IF MiscellaneousPositions # {}
                          THEN srv_categories[LeastOf(MiscellaneousPositions)].id
                          ELSE srv_categories[LeastOf(ExpensePositions)].id
           IN  /\ ExpensePositions # {}
               /\ x > 0
               /\ srvTotalExpenses(srv_bills', srv_transactions')
                    = srvTotalExpenses(srv_bills, srv_transactions) + x
               /\ \A c \in CategoryIds :
                    srvCategoryBreakdown(srv_bills', srv_transactions', c)
                      = srvCategoryBreakdown(srv_bills, srv_transactions, c)
                        + (IF c = default THEN x ELSE 0)
               /\ srv_bills' = srv_bills
               /\ srvTotalIncome(srv_salaries', srv_transactions')
                    = srvTotalIncome(srv_salaries, srv_transactions)
               /\ srv_categories' = srv_categories
    ]_vars

\* the quick expense dialog has stored an expense under Miscellaneous, which
\* is not the first expense category of the list
C11_Witness ==
  /\ variant = "react"
  /\ quickExpenseAsTransaction(lastOp)
  /\ MiscellaneousPositions # {}
  /\ LeastOf(MiscellaneousPositions) # LeastOf(ExpensePositions)
  /\ srv_transactions # <<>>
  /\ srv_transactions[Len(srv_transactions)].category_id
       = srv_categories[LeastOf(MiscellaneousPositions)].id
  /\ srv_transactions[Len(srv_transactions)].amount = parseFloat(lastOp.form.amount)

\* C16 as claimed: every transaction that is stored, on the standalone page
\* or on the server, and every POST /transactions that is in flight, from the
\* quick expense dialog or from Quick Add, has an amount greater than 0
C16_TransactionAmountPositive ==
  /\ \A i \in 1..Len(storedTransactions) : storedTransactions[i].amount > 0
  /\ \A i \in 1..Len(srv_transactions) : srv_transactions[i].amount > 0
  /\ (quickExpense.req # <<>> /\ quickExpense.req[1].path = "/transactions")
       => quickExpense.req[1].body.amount > 0
  /\ quickAdd.req # <<>> => quickAdd.req[1].body.amount > 0

\* the paths whose requests create, update or delete a salary, a bill, a
\* transaction, an event or a category
WritePaths == {"/salary/update", "/bills", "/transactions", "/events", "/categories"}

\* C17: while the user who is logged in is a guest, no request that creates,
\* updates or deletes a salary, bill, transaction, event or category is in
\* flight, whatever the guest has clicked, and no step changes one of these
\* collections of the server
C17_GuestReadOnly ==
  /\ [](role = "guest" =>
          /\ salaryCard.req = <<>> /\ billCard.req = <<>>
          /\ quickExpense.req = <<>> /\ quickExpense.pc = "idle"
          /\ quickAdd.req = <<>>
          /\ billDelete = {}
          /\ \A r \in calendarView.reqs : r.path \notin WritePaths
          /\ categoriesPage.reqs = {})
  /\ [][role = "guest" =>
          UNCHANGED <<srv_salaries, srv_bills, srv_transactions, srv_events, srv_categories>>]_vars

\* a guest has opened the email settings of the calendar page and saved
\* them: a request is in flight, and it is none of the writes above
C17_Witness ==
  /\ role = "guest"
  /\ variant = "calendar"
  /\ calendarView.reqs # {}

\* the agenda the page shows, once a load has brought it
agendaLoaded == variant = "agenda" /\ lastOp.op = "loadAgenda"

shownBills == agenda.agendaData.upcoming_bills

shownEvents == agenda.agendaData.events

\* the calendar days of the month of today and of the month after it
ComingDays ==
  LET nextMonth == IF today.month = 12 THEN [year |-> today.year + 1, month |-> 1]
                   ELSE [year |-> today.year, month |-> today.month + 1]
  IN  {[year |-> today.year, month |-> today.month, day |-> dd] :
         dd \in 1..DaysInMonth(today.year, today.month)}
      \cup {[year |-> nextMonth.year, month |-> nextMonth.month, day |-> dd] :
              dd \in 1..DaysInMonth(nextMonth.year, nextMonth.month)}

\* the first day from today on that is the due day of its month, or the last
\* day of a month that is shorter than the due day
NextOccurrence(due_day) ==
  LET falls(c) == /\ DayNumber(c) >= DayNumber(today)
                  /\ \/ c.day = due_day
                     \/ (due_day > DaysInMonth(c.year, c.month)
                         /\ c.day = DaysInMonth(c.year, c.month))
  IN  CHOOSE c \in ComingDays :
        falls(c) /\ \A e \in ComingDays : falls(e) => DayNumber(c) <= DayNumber(e)

InWindow(date) ==
  /\ DayNumber(date) >= DayNumber(today)
  /\ DayNumber(date) <= DayNumber(today) + agenda.selectedDays

\* C18: after a load of the agenda for the selected number of days, every
\* bill shown is an active bill with its next due date, that date lies in
\* [today, today + days], a due day that has passed this month stands at next
\* month's occurrence (in January of the next year after December), and every
\* active bill whose next due date lies in the window is shown
C18_AgendaWindow ==
  agendaLoaded =>
    /\ \A i \in 1..Len(shownBills) :
         /\ InWindow(shownBills[i].due_date)
         /\ shownBills[i].due_date = NextOccurrence(shownBills[i].due_day)
         /\ \E k \in 1..Len(srv_bills) :
              /\ srv_bills[k].id = shownBills[i].id
              /\ srv_bills[k].due_day = shownBills[i].due_day
              /\ srv_bills[k].active
         /\ (shownBills[i].due_day < today.day /\ shownBills[i].due_day <= 28) =>
              /\ shownBills[i].due_date.day = shownBills[i].due_day
              /\ shownBills[i].due_date.month = (today.month % 12) + 1
              /\ shownBills[i].due_date.year
                   = (IF today.month = 12 THEN today.year + 1 ELSE today.year)
    /\ \A k \in 1..Len(srv_bills) :
         (srv_bills[k].active /\ InWindow(NextOccurrence(srv_bills[k].due_day))) =>
           \E i \in 1..Len(shownBills) : shownBills[i].id = srv_bills[k].id

\* on the 28th of December the agenda of two weeks shows the bill due on the
\* 3rd at the 3rd of January of the next year, and leaves out the bill due
\* on the 25th
C18_Witness ==
  /\ agendaLoaded
  /\ today.month = 12
  /\ agenda.selectedDays = 14
  /\ \E i \in 1..Len(shownBills) :
       /\ shownBills[i].due_day = 3
       /\ shownBills[i].due_date = [year |-> today.year + 1, month |-> 1, day |-> 3]
  /\ \E k \in 1..Len(srv_bills) :
       /\ srv_bills[k].active /\ srv_bills[k].due_day = 25
       /\ \A i \in 1..Len(shownBills) : shownBills[i].id # srv_bills[k].id

\* C19: the due date of every bill the agenda shows is a day of the calendar;
\* it is the due day where the month has that day, and the last day of the
\* month where the month is shorter (30 for a due day of 31 in a month of 30
\* days, 28 or 29 in February)
C19_DueDateClamp ==
  agendaLoaded =>
    \A i \in 1..Len(shownBills) :
      LET due  == shownBills[i].due_date
          last == DaysInMonth(due.year, due.month)
      IN  /\ due.month \in 1..12
          /\ due.day \in 1..last
          /\ shownBills[i].due_day <= last => due.day = shownBills[i].due_day
          /\ shownBills[i].due_day > last => due.day = last

\* in April the bill due on the 31st is shown at the 30th
C19_Witness ==
  /\ agendaLoaded
  /\ \E i \in 1..Len(shownBills) :
       /\ shownBills[i].due_day = 31
       /\ shownBills[i].due_date.month = 4
       /\ shownBills[i].due_date.day = 30

statsComputed == lastOp.op = "updateDashboard"

AbsOf(x) == IF x < 0 THEN -x ELSE x

\* C12: when the income is positive the savings rate on display is
\* surplus / income x 100 to the nearest tenth; when the income is 0 it is 0,
\* whatever the expenses are
C12_SavingsRate ==
  statsComputed =>
    /\ dom.monthlyIncome > 0 =>
         \* | rate/10 - 100 * surplus / income | <= 1/20
         AbsOf(2 * dom.monthlyIncome * dom.savingsRate - 2000 * dom.monthlySurplus)
           <= dom.monthlyIncome
    /\ dom.monthlyIncome = 0 => dom.savingsRate = 0

\* no income, some expenses, and a rate of 0
C12_Witness ==
  /\ statsComputed
  /\ dom.monthlyIncome = 0
  /\ HasKey(storedSalaries, "harish")
  /\ dom.monthlyExpenses > 0
  /\ dom.savingsRate = 0

\* C13: computed over a store with no salary, no bill and no transaction,
\* the dashboard shows income 0, expenses 0, surplus 0 and savings rate 0
C13_EmptyStore ==
  ( /\ statsComputed
    /\ storedSalaries = <<>> /\ storedBills = <<>> /\ storedTransactions = <<>> ) =>
    /\ dom.monthlyIncome = 0
    /\ dom.monthlyExpenses = 0
    /\ dom.monthlySurplus = 0
    /\ dom.savingsRate = 0
    /\ dom.bills = <<>> /\ dom.transactions = <<>>

\* the dashboard was computed with the three keys absent from localStorage
C13_Witness ==
  /\ statsComputed
  /\ ls_salaries = <<>> /\ ls_bills = <<>> /\ ls_transactions = <<>>
  /\ dom.monthlyIncome = 0

\* C14: a bill created with a name, a positive amount and a due day in 1..31
\* is the last bill of the list read back from the store, with that name
\* (white space around it removed), amount and due day, after the bills
\* that were there; the quick expense dialog sends the name, amount and due
\* day typed
C14_BillRoundTrip ==
  [][/\ ( /\ lastOp'.op = "saveBill"
          /\ validDueDate(lastOp'.dueDay) ) =>
          /\ Len(dom'.bills) = Len(storedBills) + 1
          /\ SubSeq(dom'.bills, 1, Len(storedBills)) = storedBills
          /\ LET bill == dom'.bills[Len(dom'.bills)]
             IN  /\ bill.name = trim(lastOp'.name)
                 /\ bill.amount = parseFloat(lastOp'.amount)
                 /\ bill.amount > 0
                 /\ bill.dueDay = parseInt(lastOp'.dueDay)
     /\ ( /\ quickExpense'.req # <<>>
          /\ quickExpense'.req[1].path = "/bills" ) =>
          LET form == quickExpense'.form[1]
              body == quickExpense'.req[1].body
          IN  /\ body.name = trim(form.description)
              /\ body.expected_amount = parseFloat(form.amount)
              /\ body.due_day = parseInt(form.dueDate)
              /\ body.due_day \in 1..31]_vars

\* a bill named Rent "flat", of amount 7 and due on the 9th, was created and read back
C14_Witness ==
  /\ lastOp.op = "saveBill"
  /\ lastOp.dueDay = <<"9">>
  /\ dom.bills[Len(dom.bills)].name = <<"Rent ", "\"", "flat", "\"">>
  /\ dom.bills[Len(dom.bills)].amount = 7
  /\ dom.bills[Len(dom.bills)].dueDay = 9

\* C15 as claimed: every stored bill, of the standalone page and of the
\* server, has an amount greater than 0
C15_BillAmountPositive ==
  /\ \A i \in 1..Len(storedBills) : storedBills[i].amount > 0
  /\ \A i \in 1..Len(srv_bills) : srv_bills[i].expected_amount > 0

\* C21: the list of recent transactions on display holds stored
\* transactions, each once: all of them when there are at most 10, else 10;
\* it runs from the newest to the oldest, no transaction left out is newer
\* than one on display, and the expenses on display count every stored
\* transaction, on the list or not
C21_RecentTransactions ==
  statsComputed =>
    LET n     == Len(storedTransactions)
        shown == dom.transactions
    IN  /\ Len(shown) = (IF n < 10 THEN n ELSE 10)
        /\ \A i \in 1..Len(shown) : \E k \in 1..n : storedTransactions[k] = shown[i]
        /\ \A i, j \in 1..Len(shown) :
             i < j => (shown[i].date >= shown[j].date /\ shown[i].id # shown[j].id)
        /\ \A k \in 1..n :
             (\A i \in 1..Len(shown) : shown[i].id # storedTransactions[k].id) =>
               \A i \in 1..Len(shown) : storedTransactions[k].date <= shown[i].date
        /\ dom.monthlyExpenses = Total(storedBills) + Total(storedTransactions)
        /\ dom.monthlySurplus = dom.monthlyIncome - dom.monthlyExpenses

\* more than 10 transactions are stored and 10 are on display
C21_Witness ==
  /\ statsComputed
  /\ Len(storedTransactions) > 10
  /\ Len(dom.transactions) = 10
  /\ dom.transactions[1] = storedTransactions[Len(storedTransactions)]

\* the sum of the amounts of the records of s whose amount is a number
RECURSIVE TotalOfNumbers(_)
TotalOfNumbers(s) ==
  IF s = <<>> THEN 0
  ELSE (IF "amount" \in DOMAIN Head(s) THEN Head(s).amount ELSE 0) + TotalOfNumbers(Tail(s))

\* C22: after the dashboard is computed over a store holding a bill or a
\* transaction whose amount is not a number, every total is a number, the
\* expenses are the sum over the records whose amount is a number, and the
\* display was not aborted
C22_MalformedAmountSkipped ==
  statsComputed =>
    /\ dom.notNumbers = {}
    /\ ~dom.threw
    /\ dom.monthlyExpenses = TotalOfNumbers(storedBills) + TotalOfNumbers(storedTransactions)
    /\ dom.monthlySurplus = dom.monthlyIncome - dom.monthlyExpenses

\* C23: a page load leaves every key that was written before with the value
\* it had, an emptied bill list included; a key never written gets its
\* defaults, and the page shows what is stored
C23_ReloadKeepsStore ==
  [][lastOp'.op = "pageLoad" =>
       /\ ls_salaries # <<>> => ls_salaries' = ls_salaries
       /\ ls_bills # <<>> => ls_bills' = ls_bills
       /\ ls_transactions # <<>> => ls_transactions' = ls_transactions
       /\ ls_salaries = <<>> => getData(ls_salaries') = defaultSalaries
       /\ ls_bills = <<>> => getData(ls_bills') = defaultBills
       /\ ls_transactions = <<>> => getData(ls_transactions') = <<>>
       /\ dom'.bills = getData(ls_bills')]_vars

\* the page was loaded after the last bill was deleted; the list stays empty
C23_Witness ==
  /\ lastOp.op = "pageLoad"
  /\ ls_bills = setData(<<>>)
  /\ dom.bills = <<>>
  /\ ops >= 2

\* C29: the ids of the stored bills are pairwise distinct
C29_BillIdsDistinct ==
  Standalone0 =>
    \A i, j \in 1..Len(storedBills) : i # j => storedBills[i].id # storedBills[j].id

\* C30: on the salary card and on the bill card, loading is true exactly
\* while the card's PATCH has not settled, and a step taken while a card is
\* loading starts no request: the request in flight stays, or settles and
\* leaves loading false
C30_CardLoading ==
  /\ [](variant = "react" =>
         /\ salaryCard.loading <=> salaryCard.req # <<>>
         /\ billCard.loading <=> billCard.req # <<>>)
  /\ [][/\ salaryCard.loading =>
            \/ salaryCard'.req = salaryCard.req
            \/ salaryCard'.req = <<>> /\ ~salaryCard'.loading
        /\ billCard.loading =>
            \/ billCard'.req = billCard.req
            \/ billCard'.req = <<>> /\ ~billCard'.loading]_vars

\* both cards have a PATCH in flight
C30_Witness ==
  /\ salaryCard.loading /\ salaryCard.req # <<>>
  /\ billCard.loading /\ billCard.req # <<>>

\* C25: a request of the quick expense dialog submitted with the recurring
\* box checked is POST /bills, never POST /transactions
C25_RecurringNeverTransaction ==
  (variant = "react" /\ quickExpense.req # <<>> /\ quickExpense.form[1].isRecurringBill) =>
     quickExpense.req[1].path = "/bills"

shownBillIds == {dashboard.shown.bills[i].id : i \in 1..Len(dashboard.shown.bills)}

deleteSucceeded(billId) == lastOp = [op |-> "deleteBillOk", id |-> billId]

cardBillDueDay(bills) ==
  LET hits == SelectSeq(bills, LAMBDA b : b.id = CardBillId)
  IN  IF hits = <<>> THEN 0 ELSE hits[1].due_day

\* C26: when the PATCH of a save made with the due-day field untouched
\* settles, the server's due day of the bill is what it was; stated for the
\* saves made while the card displayed the due day the server holds
C26_UntouchedDueDayKept ==
  [][(/\ variant = "react"
      /\ billCard.req # <<>> /\ "due_day" \in DOMAIN billCard.req[1].body
      /\ ~billCard.touched
      /\ billCard.savedOver = cardBillDueDay(srv_bills)
      /\ billCard'.req = <<>>)
     => cardBillDueDay(srv_bills') = cardBillDueDay(srv_bills)]_vars

\* the stored bills other than the bill with the id billId
billsBeside(bills, billId) == SelectSeq(bills, LAMBDA bill : bill.id # billId)

\* C27: when this tab's editBill writes the list after its prompt, every
\* stored bill other than the edited one is stored after the write as it
\* was before it, whatever the other tab did while the prompt was open
C27_EditKeepsOtherTabsBills ==
  [][(variant = "standalone" /\ editPrompt # <<>> /\ editPrompt' = <<>>)
       => billsBeside(getData(ls_bills'), editPrompt[1].billId)
            = billsBeside(getData(ls_bills), editPrompt[1].billId)]_vars

====
